---- MODULE Spec2Model ----
(***************************************************************************)
(* eksnode: the `join` command that turns an EC2 instance into a worker    *)
(* node of an EKS cluster (src/eksnode/src/commands/join.rs) and the pure  *)
(* functions it is built from.                                             *)
(*                                                                         *)
(* Conventions                                                             *)
(*   Option<T>      <<>> is None, <<v>> is Some(v)                         *)
(*   Result<T>      [tag |-> "Ok", val |-> <<v>>] or                       *)
(*                  [tag |-> "Err", val |-> <<>>]; "Panic" is an unwrap or *)
(*                  expect that failed                                     *)
(*   Ipv4Addr       [fam |-> "v4", segs |-> four octets]                   *)
(*   Ipv6Addr       [fam |-> "v6", segs |-> eight 16-bit segments]         *)
(*   IpNet          [addr |-> an address, len |-> the prefix length]       *)
(*   text           a string; a file's content is the string of its bytes  *)
(***************************************************************************)
EXTENDS Integers, Sequences, FiniteSets, TLC

VARIABLES
  node,         \* JoinClusterInput: the parsed command line of `join`
  world,        \* what the instance's environment answers during this run
  fs,           \* the host's files: path -> [exists, content, mode, uid, gid]
  pc,           \* the statement of join_node_to_cluster (or of main) to run next
  loc,          \* the local variables of join_node_to_cluster
  retry,        \* get_private_dns_name: [elapsed, attempt] of the retry loop
  log,          \* the steps ended so far in this run, in order: [step, res, path, bytes]
  calls,        \* counters of the network calls made in this run
  cmds,         \* the commands spawned in this run, in order
  stdout,       \* lines printed to standard output
  stderr,       \* lines printed to standard error
  ret,          \* what join_node_to_cluster returned: "none", "Ok", "Err", "Panic"
  exit_code,    \* the process exit status, <<>> while running
  run,          \* which invocation of the command this is (1, 2, ...)
  hist,         \* the files when this invocation began, and what the previous one returned
  fn            \* the call under test of the pure-function specifications

vars == <<node, world, fs, pc, loc, retry, log, calls, cmds, stdout, stderr,
          ret, exit_code, run, hist, fn>>

----------------------------------------------------------------------------
(* Option and Result *)

None == <<>>
Some(v) == <<v>>
IsSome(o) == o # <<>>
Unwrap(o) == o[1]

Ok(v) == [tag |-> "Ok", val |-> <<v>>]
Err == [tag |-> "Err", val |-> <<>>]
Panic == [tag |-> "Panic", val |-> <<>>]
IsOk(r) == r.tag = "Ok"
Val(r) == r.val[1]

----------------------------------------------------------------------------
(* IP addresses and networks (std::net, ipnet) *)

V4(a, b, c, d) == [fam |-> "v4", segs |-> <<a, b, c, d>>]
V6(s) == [fam |-> "v6", segs |-> s]
Net(addr, len) == [addr |-> addr, len |-> len]

RECURSIVE Pow2(_)
Pow2(n) == IF n = 0 THEN 1 ELSE 2 * Pow2(n - 1)

Min(a, b) == IF a < b THEN a ELSE b
Max(a, b) == IF a > b THEN a ELSE b

\* the bits of segment i (1-based) that a prefix of length len keeps
KeptBits(len, i, width) == Max(0, Min(width, len - width * (i - 1)))

Network_mut(net) == net.addr

\* IpNet::network: the address with the host bits cleared
Network(net) ==
  LET width == IF net.addr.fam = "v4" THEN 8 ELSE 16
      mask(i) == Pow2(width - KeptBits(net.len, i, width))
  IN  [fam |-> net.addr.fam,
       segs |-> [i \in DOMAIN net.addr.segs |->
                   net.addr.segs[i] - (net.addr.segs[i] % mask(i))]]

SetLast_mut(segs, v) == <<v>> \o SubSeq(segs, 2, Len(segs))

\* the last element of the array replaced by v (octets.last_mut / segments.last_mut)
SetLast(segs, v) == SubSeq(segs, 1, Len(segs) - 1) \o <<v>>

\* eks.rs: ipv4_dns_ip_address
ipv4_dns_ip_address(addr) == [addr EXCEPT !.segs = SetLast(addr.segs, 10)]

\* eks.rs: ipv6_dns_ip_address; u16::from_str_radix("a", 16) is 10
ipv6_dns_ip_address(addr) == [addr EXCEPT !.segs = SetLast(addr.segs, 10)]

\* eks.rs:84-89: the first block whose first octet is 10 ends the scan with 172.20.0.10
RECURSIVE ScanVpcBlocks(_, _)
ScanVpcBlocks(blocks, i) ==
  IF i > Len(blocks) THEN None
  ELSE IF blocks[i].addr.segs[1] = 10 THEN Some(V4(172, 20, 0, 10))
  ELSE ScanVpcBlocks(blocks, i + 1)

derive_cluster_dns_ip_mut(service_cidr, ip_family, vpc_ipv4_cidr_blocks) ==
  IF IsSome(service_cidr)
  THEN LET addr == Network(Unwrap(service_cidr))
       IN  IF addr.fam = "v4" THEN Ok(ipv4_dns_ip_address(addr))
           ELSE Ok(ipv6_dns_ip_address(addr))
  ELSE IF ip_family = "Ipv4"
       THEN LET result == ScanVpcBlocks(vpc_ipv4_cidr_blocks, 1)
            IN  IF result = None THEN Ok(V4(172, 20, 0, 10)) ELSE Ok(V4(10, 100, 0, 10))
       ELSE Err

\* eks.rs: derive_cluster_dns_ip
derive_cluster_dns_ip(service_cidr, ip_family, vpc_ipv4_cidr_blocks) ==
  IF IsSome(service_cidr)
  THEN LET addr == Network(Unwrap(service_cidr))
       IN  IF addr.fam = "v4" THEN Ok(ipv4_dns_ip_address(addr))
           ELSE Ok(ipv6_dns_ip_address(addr))
  ELSE IF ip_family = "Ipv4"
       THEN LET result == ScanVpcBlocks(vpc_ipv4_cidr_blocks, 1)
            IN  IF result = None THEN Ok(V4(10, 100, 0, 10)) ELSE Ok(Unwrap(result))
       ELSE Err

----------------------------------------------------------------------------
(* Text helpers *)

\* the i-th character of a string
Ch(s, i) == SubSeq(s, i, i)

\* the position of character c in string s, 0 when it is absent
RECURSIVE IndexOf(_, _, _)
IndexOf(s, c, i) ==
  IF i > Len(s) THEN 0 ELSE IF Ch(s, i) = c THEN i ELSE IndexOf(s, c, i + 1)

\* the strings of seq joined with sep between them
RECURSIVE Join(_, _)
Join(seq, sep) ==
  IF seq = <<>> THEN ""
  ELSE IF Len(seq) = 1 THEN seq[1]
  ELSE seq[1] \o sep \o Join(Tail(seq), sep)

HexDigits == "0123456789abcdef"

\* {:x} of a non-negative integer
RECURSIVE Hex(_)
Hex(n) == IF n < 16 THEN Ch(HexDigits, n + 1) ELSE Hex(n \div 16) \o Ch(HexDigits, (n % 16) + 1)

\* the length of the run of zero segments that starts at i
RECURSIVE ZeroRun(_, _)
ZeroRun(segs, i) ==
  IF i > Len(segs) \/ segs[i] # 0 THEN 0 ELSE 1 + ZeroRun(segs, i + 1)

\* Display for Ipv4Addr and Ipv6Addr: dotted decimal; an IPv4-mapped address
\* (::ffff:a.b.c.d) with its last two groups in dotted decimal; otherwise
\* lower-case hex groups with the first longest run of two or more zero groups
\* written "::"
IpToString(ip) ==
  IF ip.fam = "v4"
  THEN Join([i \in 1..4 |-> ToString(ip.segs[i])], ".")
  ELSE IF SubSeq(ip.segs, 1, 6) = <<0, 0, 0, 0, 0, 65535>>
  THEN "::ffff:" \o Join(<<ToString(ip.segs[7] \div 256), ToString(ip.segs[7] % 256),
                           ToString(ip.segs[8] \div 256), ToString(ip.segs[8] % 256)>>, ".")
  ELSE LET s == ip.segs
           best == CHOOSE i \in 1..8 :
                     /\ \A j \in 1..8 : ZeroRun(s, j) <= ZeroRun(s, i)
                     /\ \A j \in 1..(i - 1) : ZeroRun(s, j) < ZeroRun(s, i)
           n == ZeroRun(s, best)
           hex(a, b) == Join([i \in 1..(b - a + 1) |-> Hex(s[a + i - 1])], ":")
       IN  IF n < 2 THEN hex(1, 8)
           ELSE hex(1, best - 1) \o "::" \o hex(best + n, 8)

\* eks.rs:71,76: the service-CIDR branches print the address they derived
derive_cluster_dns_ip_prints(service_cidr) ==
  IF IsSome(service_cidr)
  THEN <<IpToString(Val(derive_cluster_dns_ip(service_cidr, "Ipv4", <<>>)))>>
  ELSE <<>>

----------------------------------------------------------------------------
(* base64 (engine STANDARD_NO_PAD): decoding to a string of bytes.  The test
   certificates are text, so a decoded byte is written as its character. *)

B64Alphabet == "ABCDEFGHIJKLMNOPQRSTUVWXYZabcdefghijklmnopqrstuvwxyz0123456789+/"

\* the characters of the byte values 32..126, indexed by byte value - 31; the
\* quote characters and the backslash are written "?"
Printable ==
  " !?#$%&?()*+,-./0123456789:;<=>?@ABCDEFGHIJKLMNOPQRSTUVWXYZ[?]^_?abcdefghijklmnopqrstuvwxyz{|}~"

ByteToChar(b) == IF b >= 32 /\ b <= 126 THEN Ch(Printable, b - 31) ELSE "?"

B64Val(c) == IndexOf(B64Alphabet, c, 1) - 1

\* the bytes of one group of 2, 3 or 4 symbols; <<>> marks a group whose unused
\* low bits are not zero (DecodeError::InvalidLastSymbol)
B64Group(g) ==
  LET n == Len(g)
      v(i) == B64Val(Ch(g, i))
      bits == IF n = 4 THEN ((v(1) * 64 + v(2)) * 64 + v(3)) * 64 + v(4)
              ELSE IF n = 3 THEN (v(1) * 64 + v(2)) * 64 + v(3)
              ELSE v(1) * 64 + v(2)
  IN  IF n = 4 THEN Some(ByteToChar(bits \div 65536) \o ByteToChar((bits \div 256) % 256)
                         \o ByteToChar(bits % 256))
      ELSE IF n = 3 THEN IF bits % 4 # 0 THEN None
                         ELSE Some(ByteToChar(bits \div 1024) \o ByteToChar((bits \div 4) % 256))
      ELSE IF bits % 16 # 0 THEN None ELSE Some(ByteToChar(bits \div 16))

RECURSIVE B64Groups(_)
B64Groups(s) ==
  IF s = "" THEN Ok("")
  ELSE LET n == Min(4, Len(s))
           g == B64Group(SubSeq(s, 1, n))
           rest == B64Groups(SubSeq(s, n + 1, Len(s)))
       IN  IF g = None \/ ~IsOk(rest) THEN Err ELSE Ok(Unwrap(g) \o Val(rest))

\* general_purpose::STANDARD_NO_PAD.decode: a symbol outside the alphabet (the
\* padding character '=' included), a length of 1 mod 4 and non-zero trailing
\* bits are errors
b64_decode_no_pad(s) ==
  IF \E i \in 1..Len(s) : B64Val(Ch(s, i)) < 0 THEN Err
  ELSE IF Len(s) % 4 = 1 THEN Err
  ELSE B64Groups(s)

----------------------------------------------------------------------------
(* The file system: std::fs and std::os::unix::fs as the writers use them *)

NoFile == [exists |-> FALSE, content |-> "", mode |-> "", uid |-> 0, gid |-> 0]

\* OpenOptions::new().write(true).create(true).mode(m).open(path): an existing
\* file is opened as it is (no truncate(true)); a missing one is created empty
\* with the mode asked for, owned by the process (root)
open_write_create(f, m) ==
  IF f.exists THEN f
  ELSE [exists |-> TRUE, content |-> "", mode |-> m, uid |-> 0, gid |-> 0]

\* File::create(path): create or truncate; a created file gets mode 0666 under
\* the umask 022 of the unit
file_create(f) ==
  IF f.exists THEN [f EXCEPT !.content = ""]
  ELSE [exists |-> TRUE, content |-> "", mode |-> "0644", uid |-> 0, gid |-> 0]

\* write_all at offset 0 of a freshly opened file: the bytes replace the first
\* Len(bytes) bytes, what lies behind them stays
write_all(f, bytes) ==
  [f EXCEPT !.content = bytes \o SubSeq(f.content, Len(bytes) + 1, Len(f.content))]

\* OpenOptions::new().append(true): the bytes go behind the end of the file
append_all(f, bytes) == [f EXCEPT !.content = f.content \o bytes]

chown(f, uid, gid) == [f EXCEPT !.uid = uid, !.gid = gid]

\* if path.is_file() { remove_file(path) }
remove_if_file(f) == IF f.exists THEN NoFile ELSE f

\* Where an I/O sequence open; write; chown can fail
FailPoints == {"none", "open", "write", "chown"}

\* utils.rs: write_file.  The result is the file afterwards and Ok or Err.
write_file(f, contents, m, do_chown, fail) ==
  IF fail = "open" THEN [file |-> f, res |-> "Err"]
  ELSE LET opened == open_write_create(f, m) IN
  IF fail = "write" THEN [file |-> opened, res |-> "Err"]
  ELSE LET written == write_all(opened, contents) IN
  IF ~do_chown THEN [file |-> written, res |-> "Ok"]
  ELSE IF fail = "chown" THEN [file |-> written, res |-> "Err"]
  ELSE [file |-> chown(written, 0, 0), res |-> "Ok"]

\* kubelet/config.rs, kubelet/credential.rs: write(path, id): the same open
\* without truncate, the serialized object, then chown(path, id, id).  The
\* document goes into a BufWriter that to_writer_pretty takes by value: it is
\* smaller than the buffer, so the file is written when the BufWriter is dropped,
\* and a write that fails there is not reported: the file keeps what it had and
\* write goes on to chown
config_write(f, serialized, fail) ==
  IF fail = "open" THEN [file |-> f, res |-> "Err"]
  ELSE LET opened == open_write_create(f, "0644")
           dropped == IF fail = "write" THEN opened ELSE write_all(opened, serialized)
       IN  IF fail = "chown" THEN [file |-> dropped, res |-> "Err"]
           ELSE [file |-> chown(dropped, 0, 0), res |-> "Ok"]

\* kubelet/kubeconfig.rs: KubeConfig::write: File::create, then the YAML through
\* a BufWriter that is handed to the serializer and never flushed; no chown.  As
\* in config_write the file is written when the BufWriter is dropped, and a write
\* that fails there is not reported: the file stays as File::create left it
kubeconfig_write(f, serialized, fail) ==
  IF fail = "open" THEN [file |-> f, res |-> "Err"]
  ELSE LET created == file_create(f)
       IN  [file |-> IF fail = "write" THEN created ELSE write_all(created, serialized),
            res |-> "Ok"]

\* kubelet/args.rs: Args::write and ExtraArgs::write: the file is removed first
args_write(f, contents, remove_fails, fail) ==
  IF f.exists /\ remove_fails THEN [file |-> f, res |-> "Err"]
  ELSE write_file(remove_if_file(f), contents, "0644", TRUE, fail)

----------------------------------------------------------------------------
(* Versions (utils.rs: get_semver; semver::Version as <<major, minor, patch>>) *)

Digits == "0123456789"
IsDigit(c) == IndexOf(Digits, c, 1) > 0

\* the position behind the longest run of digits that starts at i
RECURSIVE DigitRunEnd(_, _)
DigitRunEnd(s, i) ==
  IF i <= Len(s) /\ IsDigit(Ch(s, i)) THEN DigitRunEnd(s, i + 1) ELSE i

\* \d+\.\d+\.\d+ at position p: the three runs of digits, or <<>>
TripleAt(s, p) ==
  LET e1 == DigitRunEnd(s, p)
      e2 == DigitRunEnd(s, e1 + 1)
      e3 == DigitRunEnd(s, e2 + 1)
  IN  IF /\ e1 > p /\ e1 <= Len(s) /\ Ch(s, e1) = "."
         /\ e2 > e1 + 1 /\ e2 <= Len(s) /\ Ch(s, e2) = "."
         /\ e3 > e2 + 1
      THEN <<SubSeq(s, p, e1 - 1), SubSeq(s, e1 + 1, e2 - 1), SubSeq(s, e2 + 1, e3 - 1)>>
      ELSE <<>>

\* the leftmost match of v?(\d+\.\d+\.\d+)(-.*)? in s: its first capture group
RECURSIVE FirstTriple(_, _)
FirstTriple(s, p) ==
  IF p > Len(s) THEN <<>>
  ELSE IF Ch(s, p) = "v" /\ TripleAt(s, p + 1) # <<>> THEN TripleAt(s, p + 1)
  ELSE IF TripleAt(s, p) # <<>> THEN TripleAt(s, p)
  ELSE FirstTriple(s, p + 1)

RECURSIVE ParseNat(_, _)
ParseNat(s, acc) ==
  IF s = "" THEN acc
  ELSE ParseNat(SubSeq(s, 2, Len(s)), acc * 10 + (IndexOf(Digits, Ch(s, 1), 1) - 1))

\* semver: a numeric identifier with a leading zero is rejected
LeadingZero(d) == Len(d) > 1 /\ Ch(d, 1) = "0"

\* utils.rs: get_semver: no match is an error value; a matched triple that
\* Version::parse rejects panics at the unwrap
get_semver(ver) ==
  LET cap == FirstTriple(ver, 1)
  IN  IF cap = <<>> THEN Err
      ELSE IF \E i \in 1..3 : LeadingZero(cap[i]) THEN Panic
      ELSE Ok([i \in 1..3 |-> ParseNat(cap[i], 0)])

\* Version: a < b
VerLt(a, b) ==
  \/ a[1] < b[1]
  \/ a[1] = b[1] /\ a[2] < b[2]
  \/ a[1] = b[1] /\ a[2] = b[2] /\ a[3] < b[3]
VerGe(a, b) == ~VerLt(a, b)

----------------------------------------------------------------------------
(* resource.rs: the capacity formulas *)

memory_mebibytes_to_reserve_mut(max_pods) == 11 * max_pods + 225

memory_mebibytes_to_reserve(max_pods) == 11 * max_pods + 255

RECURSIVE CpuShares(_, _)
CpuShares(cpu, num_cpus) ==
  IF cpu >= num_cpus THEN 0
  ELSE (IF cpu = 0 THEN 600 ELSE IF cpu \in {1, 2} THEN 100
        ELSE IF cpu \in {3, 4} THEN 50 ELSE 25) + CpuShares(cpu + 1, num_cpus)

cpu_millicores_to_reserve_mut(max_pods, num_cpus) ==
  LET reserved == CpuShares(0, num_cpus) + (IF max_pods >= 110 THEN 400 ELSE 0)
  IN  ((reserved + 50) \div 100) * 10

\* (reserved as f64 / 100.0).round() * 10.0: halves round away from zero
cpu_millicores_to_reserve(max_pods, num_cpus) ==
  LET reserved == CpuShares(0, num_cpus) + (IF max_pods > 110 THEN 400 ELSE 0)
  IN  ((reserved + 50) \div 100) * 10

calculate_eni_max_pods_mut(num_enis, ipv4_addrs, enable_prefix_del) ==
  LET modifier == IF enable_prefix_del THEN 1 ELSE 16
  IN  num_enis * ((ipv4_addrs - 1) * modifier) + 2

calculate_eni_max_pods(num_enis, ipv4_addrs, enable_prefix_del) ==
  LET modifier == IF enable_prefix_del THEN 16 ELSE 1
  IN  num_enis * ((ipv4_addrs - 1) * modifier) + 2

prefix_delegation_supported(cni_ver) ==
  LET v == get_semver(cni_ver)
  IN  IF IsOk(v) THEN Ok(VerGe(Val(v), <<1, 9, 0>>)) ELSE v

----------------------------------------------------------------------------
(* ecr.rs, join.rs: the pause image *)

SANDBOX_IMAGE_TAG == "3.8"

\* ecr.rs: get_ecr_uri
get_ecr_uri(region, enable_fips) ==
  LET acct_id ==
        CASE region = "af-south-1" -> "877085696533"
          [] region = "ap-east-1" -> "800184023465"
          [] region = "ap-south-2" -> "900889452093"
          [] region = "ap-southeast-4" -> "491585149902"
          [] region = "ap-southeast-3" -> "296578399912"
          [] region = "cn-north-1" -> "918309763551"
          [] region = "cn-northwest-1" -> "961992271922"
          [] region = "eu-central-2" -> "900612956339"
          [] region = "eu-south-1" -> "590381155156"
          [] region = "eu-south-2" -> "455263428931"
          [] region = "me-south-1" -> "558608220178"
          [] region = "me-central-1" -> "759879836304"
          [] region = "us-gov-east-1" -> "151742754352"
          [] region = "us-gov-west-1" -> "013241004608"
          [] region = "us-iso-west-1" -> "608367168043"
          [] region = "us-iso-east-1" -> "725322719131"
          [] region = "us-isob-east-1" -> "187977181151"
          [] region = "il-central-1" -> "066635153087"
          [] OTHER -> "602401143452"
      domain == IF region \in {"cn-north-1", "cn-northwest-1"}
                THEN "amazonaws.com.cn" ELSE "amazonaws.com"
  IN  IF enable_fips THEN acct_id \o ".dkr.ecr-fips." \o region \o "." \o domain
      ELSE acct_id \o ".dkr.ecr." \o region \o "." \o domain

get_pause_container_image_mut(n, imds) ==
  get_ecr_uri(imds.region, FALSE) \o "/eks/pause:" \o SANDBOX_IMAGE_TAG

\* join.rs: get_pause_container_image
get_pause_container_image(n, imds) ==
  LET uri == get_ecr_uri(imds.region, FALSE) \o "/eks/pause:" \o SANDBOX_IMAGE_TAG
  IN  IF IsSome(n.pause_container_image) THEN Unwrap(n.pause_container_image) ELSE uri

----------------------------------------------------------------------------
(* kubelet/config.rs and join.rs: the kubelet configuration *)

\* a serialized field "key: value\n"; a None option is skipped
\* (skip_serializing_if = "Option::is_none")
Field(key, text) == key \o ": " \o text \o "\n"
OptField(key, o) == IF IsSome(o) THEN Field(key, Unwrap(o)) ELSE ""
OptNum(key, o) == IF IsSome(o) THEN Field(key, ToString(Unwrap(o))) ELSE ""
Bool(b) == IF b THEN "true" ELSE "false"

\* kubelet/config.rs: KubeletConfiguration::new (the fields it sets; every other
\* field is None and is not serialized)
KubeletConfiguration_new(cluster_dns, mebibytes_to_reserve, cpu_millicores) ==
  [kind |-> "KubeletConfiguration",
   api_version |-> "kubelet.config.k8s.io/v1beta1",
   address |-> "0.0.0.0",
   read_only_port |-> 0,
   tls_cipher_suites |-> <<"TLS_ECDHE_ECDSA_WITH_AES_128_GCM_SHA256",
                           "TLS_ECDHE_RSA_WITH_AES_128_GCM_SHA256",
                           "TLS_ECDHE_ECDSA_WITH_CHACHA20_POLY1305",
                           "TLS_ECDHE_RSA_WITH_AES_256_GCM_SHA384",
                           "TLS_ECDHE_RSA_WITH_CHACHA20_POLY1305",
                           "TLS_ECDHE_ECDSA_WITH_AES_256_GCM_SHA384",
                           "TLS_RSA_WITH_AES_256_GCM_SHA384",
                           "TLS_RSA_WITH_AES_128_GCM_SHA256">>,
   server_tls_bootstrap |-> TRUE,
   authentication |-> [anonymous_enabled |-> FALSE,
                       webhook_cache_ttl |-> "2m0s",
                       webhook_enabled |-> TRUE,
                       x509_client_ca_file |-> "/etc/kubernetes/pki/ca.crt"],
   authorization |-> [mode |-> "Webhook",
                      cache_authorized_ttl |-> "5m0s",
                      cache_unauthorized_ttl |-> "30s"],
   cluster_domain |-> "cluster.local",
   cluster_dns |-> <<IpToString(cluster_dns)>>,
   cgroup_root |-> "/",
   cgroup_driver |-> "systemd",
   hairpin_mode |-> "hairpin-veth",
   max_pods |-> None,
   kube_api_qps |-> None,
   kube_api_burst |-> None,
   serialize_image_pulls |-> FALSE,
   eviction_hard |-> <<<<"memory.available", "100Mi">>, <<"nodefs.available", "10%">>,
                       <<"nodefs.inodesFree", "5%">>>>,
   protect_kernel_defaults |-> TRUE,
   feature_gates |-> {"RotateKubeletServerCertificate"},
   kube_reserved |-> [cpu |-> ToString(cpu_millicores) \o "m",
                      ephemeral_storage |-> "3Gi",
                      memory |-> ToString(mebibytes_to_reserve) \o "Mi"],
   system_reserved_cgroup |-> "/system",
   kube_reserved_cgroup |-> "/runtime",
   provider_id |-> None,
   shutdown_grace_period |-> "45s",
   shutdown_grace_period_critical_pods |-> "15s",
   container_runtime_endpoint |-> "unix:///run/containerd/containerd.sock"]

\* kubelet/config.rs: get_provider_id
get_provider_id(availability_zone, instance_id) ==
  "aws:///" \o availability_zone \o "/" \o instance_id

get_kubelet_config_mut(n, cluster_dns_ip, max_pods, kubelet_version, num_cpus, availability_zone, instance_id) ==
  LET c0 == KubeletConfiguration_new(cluster_dns_ip,
                                     memory_mebibytes_to_reserve(max_pods),
                                     cpu_millicores_to_reserve(max_pods, num_cpus))
      c1 == IF n.use_max_pods THEN [c0 EXCEPT !.max_pods = Some(max_pods)] ELSE c0
      c2 == IF VerGe(kubelet_version, <<1, 22, 0>>) /\ VerLt(kubelet_version, <<1, 27, 0>>)
            THEN [c1 EXCEPT !.kube_api_qps = Some(10), !.kube_api_burst = Some(20)]
            ELSE c1
      c3 == IF VerLt(kubelet_version, <<1, 27, 0>>)
            THEN [c2 EXCEPT !.provider_id = None]
            ELSE [c2 EXCEPT !.provider_id = Some(get_provider_id(availability_zone, instance_id))]
  IN  IF VerLt(kubelet_version, <<1, 28, 0>>)
      THEN [c3 EXCEPT !.feature_gates = @ \cup {"KubeletCredentialProviders"}]
      ELSE c3

get_kubelet_config_mut2(n, cluster_dns_ip, max_pods, kubelet_version, num_cpus, availability_zone, instance_id) ==
  LET c0 == KubeletConfiguration_new(cluster_dns_ip,
                                     memory_mebibytes_to_reserve(IF n.use_max_pods THEN max_pods ELSE 110),
                                     cpu_millicores_to_reserve(max_pods, num_cpus))
      c1 == IF n.use_max_pods THEN [c0 EXCEPT !.max_pods = Some(max_pods)] ELSE c0
      c2 == IF VerGe(kubelet_version, <<1, 22, 0>>) /\ VerLt(kubelet_version, <<1, 27, 0>>)
            THEN [c1 EXCEPT !.kube_api_qps = Some(10), !.kube_api_burst = Some(20)]
            ELSE c1
      c3 == IF VerLt(kubelet_version, <<1, 26, 0>>)
            THEN [c2 EXCEPT !.provider_id = None]
            ELSE [c2 EXCEPT !.provider_id = Some(get_provider_id(availability_zone, instance_id))]
  IN  IF VerLt(kubelet_version, <<1, 28, 0>>)
      THEN [c3 EXCEPT !.feature_gates = @ \cup {"KubeletCredentialProviders"}]
      ELSE c3

\* join.rs: get_kubelet_config.  feature_gates holds the gates mapped to true
\* (no gate is ever mapped to false).
get_kubelet_config(n, cluster_dns_ip, max_pods, kubelet_version, num_cpus, availability_zone, instance_id) ==
  LET c0 == KubeletConfiguration_new(cluster_dns_ip,
                                     memory_mebibytes_to_reserve(max_pods),
                                     cpu_millicores_to_reserve(max_pods, num_cpus))
      c1 == IF n.use_max_pods THEN [c0 EXCEPT !.max_pods = Some(max_pods)] ELSE c0
      c2 == IF VerGe(kubelet_version, <<1, 22, 0>>) /\ VerLt(kubelet_version, <<1, 27, 0>>)
            THEN [c1 EXCEPT !.kube_api_qps = Some(10), !.kube_api_burst = Some(20)]
            ELSE c1
      c3 == IF VerLt(kubelet_version, <<1, 26, 0>>)
            THEN [c2 EXCEPT !.provider_id = None]
            ELSE [c2 EXCEPT !.provider_id = Some(get_provider_id(availability_zone, instance_id))]
  IN  IF VerLt(kubelet_version, <<1, 28, 0>>)
      THEN [c3 EXCEPT !.feature_gates = @ \cup {"KubeletCredentialProviders"}]
      ELSE c3

\* the gates in the order of the BTreeMap's keys
GateOrder == <<"KubeletCredentialProviders", "RotateKubeletServerCertificate">>

RECURSIVE GatesText(_, _)
GatesText(gates, i) ==
  IF i > Len(GateOrder) THEN ""
  ELSE (IF GateOrder[i] \in gates THEN Field("  " \o GateOrder[i], "true") ELSE "")
       \o GatesText(gates, i + 1)

\* serde_json::to_writer_pretty of a KubeletConfiguration, the fields in the
\* order the struct declares them
KubeletConfiguration_serialize(c) ==
  Field("kind", c.kind) \o Field("apiVersion", c.api_version)
  \o Field("address", c.address) \o Field("readOnlyPort", ToString(c.read_only_port))
  \o Field("tlsCipherSuites", Join(c.tls_cipher_suites, ","))
  \o Field("serverTLSBootstrap", Bool(c.server_tls_bootstrap))
  \o Field("authentication.anonymous.enabled", Bool(c.authentication.anonymous_enabled))
  \o Field("authentication.webhook.cacheTTL", c.authentication.webhook_cache_ttl)
  \o Field("authentication.webhook.enabled", Bool(c.authentication.webhook_enabled))
  \o Field("authentication.x509.clientCAFile", c.authentication.x509_client_ca_file)
  \o Field("authorization.mode", c.authorization.mode)
  \o Field("authorization.webhook.cacheAuthorizedTTL", c.authorization.cache_authorized_ttl)
  \o Field("authorization.webhook.cacheUnauthorizedTTL", c.authorization.cache_unauthorized_ttl)
  \o Field("clusterDomain", c.cluster_domain)
  \o Field("clusterDNS", Join(c.cluster_dns, ","))
  \o Field("cgroupRoot", c.cgroup_root) \o Field("cgroupDriver", c.cgroup_driver)
  \o Field("hairpinMode", c.hairpin_mode)
  \o OptNum("maxPods", c.max_pods)
  \o OptNum("kubeAPIQPS", c.kube_api_qps) \o OptNum("kubeAPIBurst", c.kube_api_burst)
  \o Field("serializeImagePulls", Bool(c.serialize_image_pulls))
  \o Field("evictionHard",
           Join([i \in 1..Len(c.eviction_hard) |->
                   c.eviction_hard[i][1] \o "=" \o c.eviction_hard[i][2]], ","))
  \o Field("protectKernelDefaults", Bool(c.protect_kernel_defaults))
  \o Field("featureGates", "") \o GatesText(c.feature_gates, 1)
  \o Field("kubeReserved.cpu", c.kube_reserved.cpu)
  \o Field("kubeReserved.ephemeral-storage", c.kube_reserved.ephemeral_storage)
  \o Field("kubeReserved.memory", c.kube_reserved.memory)
  \o Field("systemReservedCgroup", c.system_reserved_cgroup)
  \o Field("kubeReservedCgroup", c.kube_reserved_cgroup)
  \o OptField("providerID", c.provider_id)
  \o Field("shutdownGracePeriod", c.shutdown_grace_period)
  \o Field("shutdownGracePeriodCriticalPods", c.shutdown_grace_period_critical_pods)
  \o Field("containerRuntimeEndpoint", c.container_runtime_endpoint)

----------------------------------------------------------------------------
(* kubelet/credential.rs: the credential-provider configuration *)

CREDENTIAL_PROVIDER_CONFIG_PATH == "/etc/eks/image-credential-provider/config.json"

\* CredentialProviderConfig::new
CredentialProviderConfig_new(kubelet_version) ==
  [api_version |-> IF VerLt(kubelet_version, <<1, 27, 0>>)
                   THEN "credentialprovider.kubelet.k8s.io/v1alpha1"
                   ELSE "credentialprovider.kubelet.k8s.io/v1",
   kind |-> "CredentialProviderConfig",
   providers |-> <<[name |-> "ecr-credential-provider",
                    match_images |-> <<"*.dkr.ecr.*.amazonaws.com",
                                       "*.dkr.ecr.*.amazonaws.com.cn",
                                       "*.dkr.ecr-fips.*.amazonaws.com",
                                       "*.dkr.ecr.us-iso-east-1.c2s.ic.gov",
                                       "*.dkr.ecr.us-isob-east-1.sc2s.sgov.gov">>,
                    default_cache_duration |-> "12h",
                    api_version |-> "credentialprovider.kubelet.k8s.io/v1"]>>]

CredentialProviderConfig_serialize(c) ==
  Field("kind", c.kind) \o Field("apiVersion", c.api_version)
  \o Join([i \in 1..Len(c.providers) |->
             Field("- name", c.providers[i].name)
             \o Field("  matchImages", Join(c.providers[i].match_images, ","))
             \o Field("  defaultCacheDuration", c.providers[i].default_cache_duration)
             \o Field("  apiVersion", c.providers[i].api_version)], "")

----------------------------------------------------------------------------
(* kubelet/kubeconfig.rs and join.rs: the kubeconfig *)

\* KubeConfig::new
KubeConfig_new(server, cluster_name, region) ==
  [kind |-> "Config",
   api_version |-> "v1",
   clusters |-> <<[name |-> "kubernetes", server |-> server,
                   certificate_authority |-> "/etc/kubernetes/pki/ca.crt"]>>,
   contexts |-> <<[name |-> "kubelet", cluster |-> "kubernetes", user |-> "kubelet"]>>,
   current_context |-> "kubelet",
   users |-> <<[name |-> "kubelet",
                exec |-> [api_version |-> "client.authentication.k8s.io/v1beta1",
                          command |-> "/usr/bin/aws-iam-authenticator",
                          args |-> <<"token", "-i", cluster_name, "--region", region>>]]>>]

KubeConfig_serialize(c) ==
  Field("kind", c.kind) \o Field("apiVersion", c.api_version)
  \o Field("clusters.cluster.server", c.clusters[1].server)
  \o Field("clusters.cluster.certificateAuthority", c.clusters[1].certificate_authority)
  \o Field("clusters.name", c.clusters[1].name)
  \o Field("contexts.name", c.contexts[1].name)
  \o Field("contexts.context.cluster", c.contexts[1].cluster)
  \o Field("contexts.context.user", c.contexts[1].user)
  \o Field("current-context", c.current_context)
  \o Field("users.name", c.users[1].name)
  \o Field("users.user.exec.apiVersion", c.users[1].exec.api_version)
  \o Field("users.user.exec.command", c.users[1].exec.command)
  \o Field("users.user.exec.args", Join(c.users[1].exec.args, " "))

\* join.rs: get_kubelet_kubeconfig: the command line's --is-local-cluster decides;
\* a local cluster without --cluster-id fails the expect
get_kubelet_kubeconfig(n, cluster, region) ==
  IF n.is_local_cluster /\ n.cluster_id = None THEN Panic
  ELSE Ok([config |-> KubeConfig_new(cluster.endpoint,
                                     IF n.is_local_cluster THEN Unwrap(n.cluster_id)
                                     ELSE cluster.name, region),
           path |-> IF n.is_local_cluster THEN "/var/lib/kubelet/bootstrap-kubeconfig"
                    ELSE "/var/lib/kubelet/kubeconfig"])

----------------------------------------------------------------------------
(* kubelet/args.rs and join.rs: the kubelet drop-ins *)

ARGS_PATH == "/etc/systemd/system/kubelet.service.d/10-kubelet-args.conf"
EXTRA_ARGS_PATH == "/etc/systemd/system/kubelet.service.d/30-kubelet-extra-args.conf"

\* ec2.rs: InstanceMetadata::get_node_ip: a missing address fails the expect
get_node_ip(imds, ip_family) ==
  IF ip_family = "Ipv4"
  THEN IF imds.local_ipv4 = None THEN Panic ELSE Ok(IpToString(Unwrap(imds.local_ipv4)))
  ELSE IF imds.ipv6_addresses = None THEN Panic
       ELSE IF Unwrap(imds.ipv6_addresses) = <<>> THEN Panic
       ELSE Ok(IpToString(Unwrap(imds.ipv6_addresses)[1]))

\* join.rs: get_kubelet_args
get_kubelet_args_mut(n, imds, kubelet_version, private_dns_name) ==
  LET node_ip == get_node_ip(imds, n.ip_family)
      cloud_provider == IF VerLt(kubelet_version, <<1, 27, 0>>) THEN "aws" ELSE "external"
  IN  IF ~IsOk(node_ip) THEN node_ip
      ELSE Ok([node_ip |-> Val(node_ip),
               pod_infra_container_image |-> get_pause_container_image(n, imds),
               hostname_override |-> IF cloud_provider = "external"
                                     THEN Some(private_dns_name) ELSE None,
               cloud_provider |-> cloud_provider,
               container_runtime |-> IF VerLt(kubelet_version, <<1, 27, 0>>)
                                     THEN Some("remote") ELSE None])

get_kubelet_args(n, imds, kubelet_version, private_dns_name) ==
  LET node_ip == get_node_ip(imds, n.ip_family)
      cloud_provider == IF VerLt(kubelet_version, <<1, 26, 0>>) THEN "aws" ELSE "external"
  IN  IF ~IsOk(node_ip) THEN node_ip
      ELSE Ok([node_ip |-> Val(node_ip),
               pod_infra_container_image |-> get_pause_container_image(n, imds),
               hostname_override |-> IF cloud_provider = "external"
                                     THEN Some(private_dns_name) ELSE None,
               cloud_provider |-> cloud_provider,
               container_runtime |-> IF VerLt(kubelet_version, <<1, 27, 0>>)
                                     THEN Some("remote") ELSE None])

\* kubelet/args.rs: the text Args::write puts into the drop-in
Args_content(a) ==
  LET end == " \\\n"
      args == "--v=2" \o end
              \o "\t--node-ip=" \o a.node_ip \o end
              \o "\t--pod-infra-container-image=" \o a.pod_infra_container_image \o end
              \o (IF IsSome(a.hostname_override)
                  THEN "\t--hostname-override=" \o Unwrap(a.hostname_override) \o end ELSE "")
              \o "\t--cloud-provider=" \o a.cloud_provider \o end
              \o (IF IsSome(a.container_runtime)
                  THEN "\t--container-runtime=" \o Unwrap(a.container_runtime) \o end ELSE "")
      stripped == SubSeq(args, 1, Len(args) - Len(end))
  IN  "[Service]\nEnvironment='KUBELET_ARGS=" \o stripped \o "'\n"

\* kubelet/args.rs: the text ExtraArgs::write puts into the drop-in
ExtraArgs_content(extra) ==
  "[Service]\nEnvironment='KUBELET_EXTRA_ARGS="
  \o (IF IsSome(extra) THEN Unwrap(extra) ELSE "") \o "'\n"

----------------------------------------------------------------------------
(* containerd/mod.rs: the containerd configuration and the sandbox-image unit *)

SANDBOX_IMAGE_SERVICE_PATH == "/etc/systemd/system/sandbox-image.service"

\* a runtime entry of plugins."io.containerd.grpc.v1.cri".containerd.runtimes
Runtime(binary_name) ==
  [runtime_type |-> "io.containerd.runc.v2", SystemdCgroup |-> TRUE,
   BinaryName |-> binary_name]

\* the overlay json!({...}) of a runtime variant: the keys it sets
RuntimeOverlay(default_runtime) ==
  CASE default_runtime = "Containerd" ->
         [default_runtime_name |-> None, runtimes |-> <<>>]
    [] default_runtime = "Neuron" ->
         [default_runtime_name |-> Some("neuron"),
          runtimes |-> <<<<"neuron",
                           Runtime(Some("/opt/aws/neuron/bin/oci_neuron_hook_wrapper.sh"))>>>>]
    [] default_runtime = "Nvidia" ->
         [default_runtime_name |-> Some("nvidia"),
          runtimes |-> <<<<"nvidia", Runtime(Some("/usr/bin/nvidia-container-runtime"))>>>>]

get_plugins_config_mut(default_runtime, sandbox_image) ==
  LET overlay == RuntimeOverlay(default_runtime)
  IN  [sandbox_image |-> sandbox_image,
       cni |-> [bin_dir |-> "/opt/cni/bin", conf_dir |-> "/etc/cni/net.d"],
       containerd |->
         [default_runtime_name |-> IF IsSome(overlay.default_runtime_name)
                                   THEN Unwrap(overlay.default_runtime_name) ELSE "runc",
          discard_unpacked_layers |-> TRUE,
          runtimes |-> IF overlay.runtimes = <<>> THEN <<<<"runc", Runtime(None)>>>>
                       ELSE overlay.runtimes],
       registry |-> [config_path |-> "/etc/containerd/certs.d"]]

\* get_plugins_config: merge(base, overlay): an object is merged key by key, any
\* other value of the overlay replaces the base's.  runtimes is kept in the
\* order of the map's keys (neuron, nvidia, runc).
get_plugins_config(default_runtime, sandbox_image) ==
  LET overlay == RuntimeOverlay(default_runtime)
  IN  [sandbox_image |-> sandbox_image,
       cni |-> [bin_dir |-> "/opt/cni/bin", conf_dir |-> "/etc/cni/net.d"],
       containerd |->
         [default_runtime_name |-> IF IsSome(overlay.default_runtime_name)
                                   THEN Unwrap(overlay.default_runtime_name) ELSE "runc",
          discard_unpacked_layers |-> TRUE,
          runtimes |-> overlay.runtimes \o <<<<"runc", Runtime(None)>>>>],
       registry |-> [config_path |-> "/etc/containerd/certs.d"]]

\* ContainerdConfiguration::new
ContainerdConfiguration_new(default_runtime, sandbox_image) ==
  [version |-> 2,
   root |-> "/var/lib/containerd",
   state |-> "/run/containerd",
   grpc_address |-> "/run/containerd/containerd.sock",
   disabled_plugins |-> <<"io.containerd.internal.v1.opt",
                          "io.containerd.snapshotter.v1.aufs",
                          "io.containerd.snapshotter.v1.devmapper",
                          "io.containerd.snapshotter.v1.native",
                          "io.containerd.snapshotter.v1.zfs">>,
   plugins |-> get_plugins_config(default_runtime, sandbox_image)]

\* toml::to_string and the formatter, as what ContainerdConfiguration::write writes
ContainerdConfiguration_serialize(c) ==
  LET cri == c.plugins
      rt(i) == Field("runtimes." \o cri.containerd.runtimes[i][1] \o ".runtime_type",
                     cri.containerd.runtimes[i][2].runtime_type)
               \o OptField("runtimes." \o cri.containerd.runtimes[i][1] \o ".options.BinaryName",
                           cri.containerd.runtimes[i][2].BinaryName)
               \o Field("runtimes." \o cri.containerd.runtimes[i][1] \o ".options.SystemdCgroup",
                        Bool(cri.containerd.runtimes[i][2].SystemdCgroup))
  IN  Field("version", ToString(c.version)) \o Field("root", c.root)
      \o Field("state", c.state)
      \o Field("disabled_plugins", Join(c.disabled_plugins, ","))
      \o Field("grpc.address", c.grpc_address)
      \o Field("cri.sandbox_image", cri.sandbox_image)
      \o Field("cri.cni.bin_dir", cri.cni.bin_dir)
      \o Field("cri.cni.conf_dir", cri.cni.conf_dir)
      \o Field("cri.containerd.default_runtime_name", cri.containerd.default_runtime_name)
      \o Field("cri.containerd.discard_unpacked_layers",
               Bool(cri.containerd.discard_unpacked_layers))
      \o Join([i \in 1..Len(cri.containerd.runtimes) |-> rt(i)], "")
      \o Field("cri.registry.config_path", cri.registry.config_path)

\* create_sandbox_image_service: the unit template with {{EXEC_START}} replaced
sandbox_image_service_content(pause_image) ==
  "[Unit]\nDescription=pull sandbox image\n[Service]\nExecStart="
  \o "eksnode pull --image " \o pause_image \o " --namespace k8s.io" \o "\n"

----------------------------------------------------------------------------
(* The inputs and the environment of a run *)

\* bounds of the model
MaxRuns == 2         \* invocations of the command in a row
ReqSlowMillis == 140000  \* the time a slow describe-instances request takes
ReqFastMillis == 90000   \* the time a fast describe-instances request takes
MaxVpcBlocks == 2    \* VPC CIDR blocks in the metadata
MaxNonZeroExits == 1 \* systemctl commands of a run that exit with a non-zero status
MaxDeviations == 1   \* inputs in which a run differs from the plain managed-node run
MaxEnis == 15
MaxIpv4PerEni == 50
MaxCpus == 96

\* ec2.rs:24,26
FETCH_PRIVATE_DNS_NAME_TIMEOUT == 300000
FIBONACCI_BACKOFF_BASE_DURATION_MILLIS == 200

CA_PATH == "/etc/kubernetes/pki/ca.crt"
HOSTS_PATH == "/etc/hosts"
KUBELET_CONFIG_PATH == "/etc/kubernetes/kubelet/kubelet-config.json"
CONTAINERD_CONFIG_PATH == "/etc/containerd/config.toml"
KUBECONFIG_PATH == "/var/lib/kubelet/kubeconfig"
BOOTSTRAP_KUBECONFIG_PATH == "/var/lib/kubelet/bootstrap-kubeconfig"

Paths == {CA_PATH, HOSTS_PATH, CREDENTIAL_PROVIDER_CONFIG_PATH, KUBECONFIG_PATH,
          BOOTSTRAP_KUBECONFIG_PATH, KUBELET_CONFIG_PATH, ARGS_PATH, EXTRA_ARGS_PATH,
          CONTAINERD_CONFIG_PATH, SANDBOX_IMAGE_SERVICE_PATH}

\* the command lines the model runs `join` with (cli.rs: JoinClusterInput)
NodeInputs ==
  [apiserver_endpoint : {None, Some("https://direct.example")},
   b64_cluster_ca : {None, Some("ZGlyZWN0IGNlcnQ")},
   cluster_id : {None, Some("6B29FC40")},
   cluster_name : {"example"},
   default_container_runtime : {"Containerd", "Neuron", "Nvidia"},
   cluster_dns_ip : {None},
   is_local_cluster : BOOLEAN,
   ip_family : {"Ipv4", "Ipv6"},
   kubelet_extra_args : {Some("--node-labels=a=b")},
   pause_container_image : {None, Some("registry.example/pause:1")},
   service_cidr : {None, Some(Net(V6(<<64768, 0, 0, 0, 0, 0, 0, 0>>), 108))},
   use_max_pods : {TRUE}]

\* ec2.rs: InstanceMetadata as the metadata service answers
Imds(vpc_blocks, local_ipv4, instance_type) ==
  [availability_zone |-> "us-east-1a", region |-> "us-east-1", domain |-> "amazonaws.com",
   mac_address |-> "0e:00:00:00:00:01", vpc_ipv4_cidr_blocks |-> vpc_blocks,
   local_ipv4 |-> local_ipv4,
   ipv6_addresses |-> Some(<<V6(<<9734, 0, 0, 0, 0, 0, 0, 5>>)>>),
   instance_type |-> instance_type, instance_id |-> "i-0e46d9575664f45bd"]

\* the embedded table ec2-instances.yaml (ec2.rs: get_instance), four of its rows
Instances ==
  [t \in {"c5.large", "c6g.medium", "m4.large", "c5.18xlarge"} |->
     IF t = "c5.large"
     THEN [default_vcpus |-> 2, eni_maximum_pods |-> 29, hypervisor |-> "nitro",
           instance_storage_supported |-> FALSE, ipv4_addresses_per_interface |-> 10,
           maximum_network_interfaces |-> 3]
     ELSE IF t = "c6g.medium"
     THEN [default_vcpus |-> 1, eni_maximum_pods |-> 8, hypervisor |-> "nitro",
           instance_storage_supported |-> FALSE, ipv4_addresses_per_interface |-> 4,
           maximum_network_interfaces |-> 2]
     ELSE IF t = "m4.large"
     THEN [default_vcpus |-> 2, eni_maximum_pods |-> 20, hypervisor |-> "xen",
           instance_storage_supported |-> FALSE, ipv4_addresses_per_interface |-> 10,
           maximum_network_interfaces |-> 2]
     ELSE [default_vcpus |-> 72, eni_maximum_pods |-> 737, hypervisor |-> "nitro",
           instance_storage_supported |-> FALSE, ipv4_addresses_per_interface |-> 50,
           maximum_network_interfaces |-> 15]]

\* ec2.rs: get_instance
get_instance(instance_type) ==
  IF instance_type \in DOMAIN Instances THEN Some(Instances[instance_type]) ELSE None

\* the environments the model runs `join` in
Worlds ==
  [imds : {<<Imds(<<Net(V4(10, 0, 0, 0), 16)>>, Some(V4(10, 0, 1, 7)), "c5.large"),
             Imds(<<Net(V4(10, 0, 0, 0), 16)>>, Some(V4(10, 0, 1, 7)), "c5.large")>>,
           <<Imds(<<Net(V4(192, 168, 0, 0), 16)>>, None, "c5.large"),
             Imds(<<Net(V4(192, 168, 0, 0), 16)>>, None, "c5.large")>>,
           <<Imds(<<Net(V4(10, 0, 0, 0), 16)>>, Some(V4(10, 0, 1, 7)), "x9.large"),
             Imds(<<Net(V4(10, 0, 0, 0), 16)>>, Some(V4(10, 0, 1, 7)), "x9.large")>>,
           <<Imds(<<Net(V4(10, 0, 0, 0), 16)>>, Some(V4(10, 0, 1, 7)), "c5.18xlarge"),
             Imds(<<Net(V4(10, 0, 0, 0), 16)>>, Some(V4(10, 0, 1, 7)), "c5.18xlarge")>>,
           <<Imds(<<Net(V4(10, 0, 0, 0), 16)>>, Some(V4(10, 0, 1, 7)), "c5.large"),
             Imds(<<Net(V4(192, 168, 0, 0), 16)>>, Some(V4(10, 0, 1, 7)), "c5.large")>>},
   cluster : [name : {"example"}, endpoint : {"https://described.example"},
              ca : {"ZGVzY3JpYmVk", "ZGVzY3JpYmVkIQ=="}, outpost_config : BOOLEAN],
   kubelet_stdout : {"Kubernetes v1.26.4-eks-0a21954\n"},
   num_cpus : {2},
   out_of_space : {{}, {CREDENTIAL_PROVIDER_CONFIG_PATH}, {KUBECONFIG_PATH},
                   {KUBELET_CONFIG_PATH}},
   private_dns_name : {"ip-10-0-1-7.ec2.internal"},
   endpoint_ips : {<<V4(10, 0, 9, 1), V4(10, 0, 9, 2)>>},
   req_ms : {{ReqFastMillis, ReqSlowMillis}}]

StaleFile ==
  [exists |-> TRUE, content |-> "# left by an earlier image build\nstale\n",
   mode |-> "0600", uid |-> 1000, gid |-> 1000]
HostsFile ==
  [exists |-> TRUE, content |-> "127.0.0.1 localhost\n", mode |-> "0644", uid |-> 0, gid |-> 0]

\* the host before the first run: the files are missing, or all left over
InitialFiles ==
  {[p \in Paths |-> IF p = HOSTS_PATH THEN HostsFile ELSE NoFile],
   [p \in Paths |-> IF p = HOSTS_PATH THEN HostsFile ELSE StaleFile]}

\* the plain run: a node that names its cluster and lets join describe it, on a
\* fresh host; the number of inputs (the way the cluster is supplied, its
\* locality, the runtime, the addressing, the metadata, the described
\* certificate, the outpost configuration, the files) in which a run differs
Differs(a, b) == IF a = b THEN 0 ELSE 1
Deviations(n, w, f) ==
  Differs(<<n.apiserver_endpoint, n.b64_cluster_ca>>, <<None, None>>)
  + Differs(<<n.is_local_cluster, n.cluster_id>>, <<FALSE, None>>)
  + Differs(n.default_container_runtime, "Containerd")
  + Differs(n.pause_container_image, None)
  + Differs(<<n.ip_family, n.service_cidr>>, <<"Ipv4", None>>)
  + Differs(w.imds, <<Imds(<<Net(V4(10, 0, 0, 0), 16)>>, Some(V4(10, 0, 1, 7)), "c5.large"),
                      Imds(<<Net(V4(10, 0, 0, 0), 16)>>, Some(V4(10, 0, 1, 7)), "c5.large")>>)
  + Differs(w.cluster.ca, "ZGVzY3JpYmVk")
  + Differs(w.cluster.outpost_config, FALSE)
  + Differs(w.out_of_space, {})
  + Differs(f[CA_PATH].exists, FALSE)

\* the locals of join_node_to_cluster before they are bound
NoLocals ==
  [instance_metadata |-> None, cluster |-> None, kubelet_version |-> None,
   max_pods |-> None, pause_image |-> None, private_dns_name |-> None]

NoCalls == [imds |-> 0, describe_cluster |-> 0, describe_instances |-> 0]
NoRetry == [elapsed |-> 0, attempt |-> 0]
NoFn == [op |-> "", args |-> <<>>, out |-> <<>>]

----------------------------------------------------------------------------
(* join.rs: join_node_to_cluster, statement by statement *)

\* the statements in the order join_node_to_cluster (join.rs:302-357) has them
JoinOrder ==
  <<"get_imds_data", "get_cluster", "get_kubelet_version", "get_max_pods",
    "get_pause_container_image", "get_client", "get_private_dns_name", "write_ca_cert",
    "update_etc_hosts", "credential_provider_config", "kubelet_kubeconfig",
    "kubelet_config", "kubelet_args", "kubelet_extra_args", "containerd_config",
    "create_sandbox_image_service", "set_nvidia_max_clock", "daemon_reload",
    "enable", "reload_or_restart_containerd", "start">>

\* join.rs:312,348: the two statements under an if
Runs(n, step) ==
  CASE step = "update_etc_hosts" -> n.is_local_cluster
    [] step = "set_nvidia_max_clock" -> n.default_container_runtime = "Nvidia"
    [] OTHER -> TRUE

Position(step) == CHOOSE i \in 1..Len(JoinOrder) : JoinOrder[i] = step

\* the statement that runs after `step` returned Ok; "main" after the last one
NextStep(n, step) ==
  LET later == {i \in (Position(step) + 1)..Len(JoinOrder) : Runs(n, JoinOrder[i])}
  IN  IF later = {} THEN "main"
      ELSE JoinOrder[CHOOSE i \in later : \A j \in later : i <= j]

\* the ? after every statement: anything but Ok leaves the function
AfterStep(n, step, res) ==
  IF res # "Ok" THEN "main" ELSE NextStep(n, step)

\* the value join_node_to_cluster has returned after `step` ended with res
Returned(n, step, res) ==
  IF AfterStep(n, step, res) # "main" THEN "none"
  ELSE IF res = "Ok" THEN "Ok" ELSE res

\* `step` ended with res; path names the file it was to write ("" for none),
\* bytes what it had generated for it
Finish(step, res, path, bytes) ==
  /\ log' = Append(log, [step |-> step, res |-> res, path |-> path, bytes |-> bytes])
  /\ pc' = AfterStep(node, step, res)
  /\ ret' = Returned(node, step, res)

Run1 == <<run, hist, fn, node, world, exit_code>>

\* ec2.rs: get_imds_data: the answer to the k-th fetch of a run: a request that
\* fails is an error, an unparseable CIDR block or address fails an expect
get_imds_data(k) == {Ok(world.imds[k]), Err, Panic}

\* join.rs:302
GetImdsData ==
  /\ pc = "get_imds_data"
  /\ \E r \in get_imds_data(calls.imds + 1) :
       /\ loc' = IF IsOk(r) THEN [loc EXCEPT !.instance_metadata = Some(Val(r))] ELSE loc
       /\ fs' = fs
       /\ Finish("get_imds_data", r.tag, "", "")
  /\ calls' = [calls EXCEPT !.imds = @ + 1]
  /\ UNCHANGED <<Run1, retry, cmds, stdout, stderr>>

\* the answers describe_cluster (eks.rs:28-33) and the unwraps of eks.rs:158-160
\* can meet: the request fails; the cluster, its name, its endpoint or its
\* certificate data is missing; or all are there
DescribeAnswers ==
  {Err, Panic,
   Ok([name |-> world.cluster.name, endpoint |-> world.cluster.endpoint,
       b64_ca |-> world.cluster.ca, is_local_cluster |-> world.cluster.outpost_config])}

collect_cluster_mut(n, cluster_dns_ip) ==
  IF IsSome(n.apiserver_endpoint)
  THEN Some([name |-> n.cluster_name, endpoint |-> Unwrap(n.apiserver_endpoint),
             b64_ca |-> IF IsSome(n.b64_cluster_ca) THEN Unwrap(n.b64_cluster_ca) ELSE "",
             is_local_cluster |-> n.is_local_cluster, cluster_dns_ip |-> cluster_dns_ip])
  ELSE None

\* eks.rs: collect_cluster
collect_cluster(n, cluster_dns_ip) ==
  IF IsSome(n.apiserver_endpoint) /\ IsSome(n.b64_cluster_ca)
  THEN Some([name |-> n.cluster_name, endpoint |-> Unwrap(n.apiserver_endpoint),
             b64_ca |-> Unwrap(n.b64_cluster_ca), is_local_cluster |-> n.is_local_cluster,
             cluster_dns_ip |-> cluster_dns_ip])
  ELSE None

\* eks.rs:138-141: the DNS IP of collect_or_get_cluster
cluster_dns_ip_of(n, vpc_ipv4_cidr_blocks) ==
  IF IsSome(n.cluster_dns_ip) THEN Ok(Unwrap(n.cluster_dns_ip))
  ELSE derive_cluster_dns_ip(n.service_cidr, n.ip_family, vpc_ipv4_cidr_blocks)

\* join.rs:303: get_cluster: a second fetch of the metadata, then
\* eks.rs: collect_or_get_cluster
GetCluster ==
  /\ pc = "get_cluster"
  /\ \E m \in get_imds_data(calls.imds + 1) :
       IF ~IsOk(m)
       THEN /\ UNCHANGED <<loc, stdout>>
            /\ calls' = [calls EXCEPT !.imds = @ + 1]
            /\ fs' = fs
            /\ Finish("get_cluster", m.tag, "", "")
       ELSE LET dns == cluster_dns_ip_of(node, Val(m).vpc_ipv4_cidr_blocks)
                direct == IF IsOk(dns) THEN collect_cluster(node, Val(dns)) ELSE None
            IN  /\ stdout' = IF node.cluster_dns_ip = None
                             THEN stdout \o derive_cluster_dns_ip_prints(node.service_cidr)
                             ELSE stdout
                /\ fs' = fs
                /\ IF ~IsOk(dns)
                   THEN /\ calls' = [calls EXCEPT !.imds = @ + 1]
                        /\ loc' = loc
                        /\ Finish("get_cluster", dns.tag, "", "")
                   ELSE IF IsSome(direct)
                   THEN /\ calls' = [calls EXCEPT !.imds = @ + 1]
                        /\ loc' = [loc EXCEPT !.cluster = direct]
                        /\ Finish("get_cluster", "Ok", "", "")
                   ELSE \E d \in DescribeAnswers :
                          /\ calls' = [calls EXCEPT !.imds = @ + 1,
                                                    !.describe_cluster = @ + 1]
                          /\ loc' = IF IsOk(d)
                                    THEN [loc EXCEPT !.cluster =
                                            Some([name |-> Val(d).name,
                                                  endpoint |-> Val(d).endpoint,
                                                  b64_ca |-> Val(d).b64_ca,
                                                  is_local_cluster |-> Val(d).is_local_cluster,
                                                  cluster_dns_ip |-> Val(dns)])]
                                    ELSE loc
                          /\ Finish("get_cluster", d.tag, "", "")
  /\ UNCHANGED <<Run1, retry, cmds, stderr>>

\* utils.rs: cmd_exec: the command could not be spawned (None) or ran and left
\* an exit status
Spawned(cmd, args, status) == [cmd |-> cmd, args |-> args, status |-> status]

\* what `kubelet --version` can print: the version line, nothing (the command
\* failed), or a line whose number semver rejects
KubeletOutputs == {world.kubelet_stdout, "", "Kubernetes v1.026.4\n"}

\* join.rs:304; kubelet/mod.rs: get_kubelet_version
GetKubeletVersion ==
  /\ pc = "get_kubelet_version"
  /\ \/ /\ cmds' = Append(cmds, Spawned("kubelet", <<"--version">>, None))
        /\ loc' = loc
        /\ fs' = fs
        /\ Finish("get_kubelet_version", "Err", "", "")
     \/ \E out \in KubeletOutputs :
          LET v == get_semver(out)
          IN  /\ cmds' = Append(cmds, Spawned("kubelet", <<"--version">>,
                                              Some(IF out = "" THEN 1 ELSE 0)))
              /\ loc' = IF IsOk(v) THEN [loc EXCEPT !.kubelet_version = Some(Val(v))] ELSE loc
              /\ fs' = fs
              /\ Finish("get_kubelet_version", v.tag, "", "")
  /\ UNCHANGED <<Run1, retry, calls, stdout, stderr>>

calculate_mut(input, get_instance_type) ==
  IF input.instance_type_from_imds /\ ~IsOk(get_instance_type) THEN get_instance_type
  ELSE IF ~input.instance_type_from_imds /\ input.instance_type = None THEN Panic
  ELSE
  LET instance_type == IF input.instance_type_from_imds THEN Val(get_instance_type)
                       ELSE Unwrap(input.instance_type)
      instance == get_instance(instance_type)
      prefix_supported == prefix_delegation_supported(input.cni_version)
  IN  IF instance = None THEN Err
      ELSE IF ~IsOk(prefix_supported) THEN prefix_supported
      ELSE LET i == Unwrap(instance)
               enis == IF IsSome(input.cni_max_enis)
                       THEN Min(i.maximum_network_interfaces, Unwrap(input.cni_max_enis))
                       ELSE i.maximum_network_interfaces
               num_enis == IF input.cni_custom_networking_enabled THEN enis - 1 ELSE enis
               use_prefix_del == Val(prefix_supported) /\ input.cni_prefix_delegation_enabled
               max_pods == calculate_eni_max_pods(num_enis, i.ipv4_addresses_per_interface,
                                                  use_prefix_del)
           IN  Ok(IF i.default_vcpus > 30 THEN Min(250, max_pods) ELSE Min(110, max_pods))

\* commands/calculate.rs: CalculateMaxPodsInput::calculate; get_instance_type is
\* what ec2::get_instance_type answers (the type the metadata service reports, or
\* an error), asked for only with --instance-type-from-imds
calculate(input, get_instance_type) ==
  IF input.instance_type_from_imds /\ ~IsOk(get_instance_type) THEN get_instance_type
  ELSE IF ~input.instance_type_from_imds /\ input.instance_type = None THEN Panic
  ELSE
  LET instance_type == IF input.instance_type_from_imds THEN Val(get_instance_type)
                       ELSE Unwrap(input.instance_type)
      instance == get_instance(instance_type)
      prefix_supported == prefix_delegation_supported(input.cni_version)
  IN  IF instance = None THEN Err
      ELSE IF ~IsOk(prefix_supported) THEN prefix_supported
      ELSE LET i == Unwrap(instance)
               enis == IF IsSome(input.cni_max_enis)
                       THEN Min(i.maximum_network_interfaces, Unwrap(input.cni_max_enis))
                       ELSE i.maximum_network_interfaces
               num_enis == IF input.cni_custom_networking_enabled THEN enis - 1 ELSE enis
               use_prefix_del == /\ i.hypervisor = "nitro" /\ Val(prefix_supported)
                                 /\ input.cni_prefix_delegation_enabled
               max_pods == calculate_eni_max_pods(num_enis, i.ipv4_addresses_per_interface,
                                                  use_prefix_del)
           IN  Ok(IF i.default_vcpus > 30 THEN Min(250, max_pods) ELSE Min(110, max_pods))

\* join.rs: get_max_pods
get_max_pods(instance_type) ==
  LET instance == get_instance(instance_type)
  IN  IF IsSome(instance) THEN Ok(Unwrap(instance).eni_maximum_pods)
      ELSE calculate([instance_type |-> Some(instance_type),
                      instance_type_from_imds |-> FALSE, cni_version |-> "1.10.0",
                      cni_custom_networking_enabled |-> FALSE,
                      cni_prefix_delegation_enabled |-> FALSE, cni_max_enis |-> None],
                     Ok(instance_type))

\* join.rs:305
GetMaxPods ==
  /\ pc = "get_max_pods"
  /\ LET r == get_max_pods(Unwrap(loc.instance_metadata).instance_type)
     IN  /\ loc' = IF IsOk(r) THEN [loc EXCEPT !.max_pods = Some(Val(r))] ELSE loc
         /\ fs' = fs
         /\ Finish("get_max_pods", r.tag, "", "")
  /\ UNCHANGED <<Run1, retry, calls, cmds, stdout, stderr>>

\* join.rs:306
GetPauseContainerImage ==
  /\ pc = "get_pause_container_image"
  /\ loc' = [loc EXCEPT !.pause_image =
               Some(get_pause_container_image(node, Unwrap(loc.instance_metadata)))]
  /\ fs' = fs
  /\ Finish("get_pause_container_image", "Ok", "", "")
  /\ UNCHANGED <<Run1, retry, calls, cmds, stdout, stderr>>

\* join.rs:308; ec2.rs: get_client always returns Ok
GetClient ==
  /\ pc = "get_client"
  /\ fs' = fs
  /\ Finish("get_client", "Ok", "", "")
  /\ UNCHANGED <<Run1, loc, retry, calls, cmds, stdout, stderr>>

\* tokio_retry: FibonacciBackoff::from_millis(base): base, base, 2 base, 3 base, ...
RECURSIVE Fib(_)
Fib(n) == IF n < 2 THEN 1 ELSE Fib(n - 1) + Fib(n - 2)
FibonacciBackoff(attempt) == Fib(attempt) * FIBONACCI_BACKOFF_BASE_DURATION_MILLIS

\* tokio_retry: jitter: the delay times a random factor of [0, 1): its extremes
jitter(delay) == {0, delay - 1}

\* ec2.rs:96-113: what one attempt yields: the request fails, there is no
\* reservation or instance, the name is empty, or the name is there.  Only a
\* non-empty name passes the filter.
DescribeInstancesAnswers == {Err, Ok(None), Ok(Some("")), Ok(Some(world.private_dns_name))}

attempt_result_mut(answer) ==
  IF IsOk(answer) /\ IsSome(Val(answer)) THEN Ok(Unwrap(Val(answer))) ELSE Err

attempt_result(answer) ==
  IF IsOk(answer) /\ IsSome(Val(answer)) /\ Unwrap(Val(answer)) # ""
  THEN Ok(Unwrap(Val(answer))) ELSE Err

\* tokio::time::timeout: the deadline has passed; a future that is ready at the
\* deadline itself is polled first and still returns its value
timeout(elapsed) == elapsed > FETCH_PRIVATE_DNS_NAME_TIMEOUT

\* join.rs:309; ec2.rs: get_private_dns_name: one attempt of Retry::spawn under
\* tokio::time::timeout, and the sleep that follows a failed one
GetPrivateDnsName ==
  /\ pc = "get_private_dns_name"
  /\ \E d \in world.req_ms, a \in DescribeInstancesAnswers :
       LET answered == retry.elapsed + d
           r == attempt_result(a)
       IN  /\ calls' = [calls EXCEPT !.describe_instances = @ + 1]
           /\ fs' = fs
           /\ IF timeout(answered)
              THEN \* the deadline passes while the request is in flight
                   /\ retry' = NoRetry
                   /\ loc' = loc
                   /\ Finish("get_private_dns_name", "Err", "", "")
              ELSE IF IsOk(r)
              THEN /\ retry' = NoRetry
                   /\ loc' = [loc EXCEPT !.private_dns_name = Some(Val(r))]
                   /\ Finish("get_private_dns_name", "Ok", "", "")
              ELSE \E j \in jitter(FibonacciBackoff(retry.attempt)) :
                     IF timeout(answered + j)
                     THEN \* the deadline passes during the sleep
                          /\ retry' = NoRetry
                          /\ loc' = loc
                          /\ Finish("get_private_dns_name", "Err", "", "")
                     ELSE /\ retry' = [elapsed |-> answered + j,
                                       attempt |-> retry.attempt + 1]
                          /\ UNCHANGED <<loc, log, pc, ret>>
  /\ UNCHANGED <<Run1, cmds, stdout, stderr>>

\* a write step: it generated bytes for the file at path, the file becomes
\* w.file and the step ends with w.res
WriteStep(step, path, bytes, w) ==
  /\ fs' = [fs EXCEPT ![path] = w.file]
  /\ Finish(step, w.res, path, bytes)

\* join.rs:311; write_ca_cert
WriteCaCert ==
  /\ pc = "write_ca_cert"
  /\ LET decoded == b64_decode_no_pad(Unwrap(loc.cluster).b64_ca)
     IN  IF ~IsOk(decoded)
         THEN /\ fs' = fs
              /\ Finish("write_ca_cert", "Err", CA_PATH, "")
         ELSE \E fail \in FailPoints :
                WriteStep("write_ca_cert", CA_PATH, Val(decoded),
                          write_file(fs[CA_PATH], Val(decoded), "0644", TRUE, fail))
  /\ UNCHANGED <<Run1, loc, retry, calls, cmds, stdout, stderr>>

\* the orders ips.shuffle can leave n addresses in
Orders(n) == {p \in [1..n -> 1..n] : \A i, j \in 1..n : p[i] = p[j] => i = j}

shuffle(ips) == {[i \in 1..Len(ips) |-> ips[p[i]]] : p \in Orders(Len(ips))}

\* join.rs:273: one line "<ip> <endpoint>\n" for each address
hosts_entries(ips, endpoint) ==
  Join([i \in 1..Len(ips) |-> IpToString(ips[i]) \o " " \o endpoint \o "\n"], "")

\* join.rs: update_etc_hosts: the file cannot be opened, the lookup fails, the
\* write fails, or the entries are appended
update_etc_hosts(f, entries, fail) ==
  IF fail = "open" \/ ~f.exists THEN [file |-> f, res |-> "Err"]
  ELSE IF fail = "lookup" THEN [file |-> f, res |-> "Err"]
  ELSE IF fail = "write" THEN [file |-> f, res |-> "Err"]
  ELSE [file |-> append_all(f, entries), res |-> "Ok"]

\* join.rs:312-314
UpdateEtcHosts ==
  /\ pc = "update_etc_hosts"
  /\ \E fail \in {"none", "open", "lookup", "write"}, order \in shuffle(world.endpoint_ips) :
       LET entries == hosts_entries(order, Unwrap(loc.cluster).endpoint)
       IN  WriteStep("update_etc_hosts", HOSTS_PATH, entries,
                     update_etc_hosts(fs[HOSTS_PATH], entries, fail))
  /\ UNCHANGED <<Run1, loc, retry, calls, cmds, stdout, stderr>>

\* the write of a configuration file can fail, unreported, where the world has
\* the file on a file system that is out of space
MayDiscard(path, fail) == fail = "write" => path \in world.out_of_space

\* join.rs:316-317
WriteCredentialProviderConfig ==
  /\ pc = "credential_provider_config"
  /\ LET bytes == CredentialProviderConfig_serialize(
                    CredentialProviderConfig_new(Unwrap(loc.kubelet_version)))
     IN  \E fail \in FailPoints :
           /\ MayDiscard(CREDENTIAL_PROVIDER_CONFIG_PATH, fail)
           /\ WriteStep("credential_provider_config", CREDENTIAL_PROVIDER_CONFIG_PATH, bytes,
                        config_write(fs[CREDENTIAL_PROVIDER_CONFIG_PATH], bytes, fail))
  /\ UNCHANGED <<Run1, loc, retry, calls, cmds, stdout, stderr>>

\* join.rs:319-320
WriteKubeletKubeconfig ==
  /\ pc = "kubelet_kubeconfig"
  /\ LET k == get_kubelet_kubeconfig(node, Unwrap(loc.cluster),
                                     Unwrap(loc.instance_metadata).region)
     IN  IF ~IsOk(k)
         THEN /\ fs' = fs
              /\ Finish("kubelet_kubeconfig", k.tag, "", "")
         ELSE LET bytes == KubeConfig_serialize(Val(k).config)
              IN  \E fail \in FailPoints \ {"chown"} :
                    /\ MayDiscard(Val(k).path, fail)
                    /\ WriteStep("kubelet_kubeconfig", Val(k).path, bytes,
                                 kubeconfig_write(fs[Val(k).path], bytes, fail))
  /\ UNCHANGED <<Run1, loc, retry, calls, cmds, stdout, stderr>>

\* join.rs:333: error! as the subscriber of main.rs (no time stamp, the default
\* verbosity, which admits ERROR) writes it to standard output
KubeletConfigError ==
  "ERROR eksnode::commands::join: failed to write kubelet config at " \o KUBELET_CONFIG_PATH

\* join.rs:322-336
WriteKubeletConfig ==
  /\ pc = "kubelet_config"
  /\ LET im == Unwrap(loc.instance_metadata)
         config == get_kubelet_config(node, Unwrap(loc.cluster).cluster_dns_ip,
                                      Unwrap(loc.max_pods), Unwrap(loc.kubelet_version),
                                      world.num_cpus, im.availability_zone, im.instance_id)
         bytes == KubeletConfiguration_serialize(config)
     IN  \E fail \in FailPoints :
           LET w == config_write(fs[KUBELET_CONFIG_PATH], bytes, fail)
           IN  /\ MayDiscard(KUBELET_CONFIG_PATH, fail)
               /\ WriteStep("kubelet_config", KUBELET_CONFIG_PATH, bytes, w)
               /\ stdout' = IF w.res = "Err" THEN Append(stdout, KubeletConfigError)
                            ELSE stdout
  /\ UNCHANGED <<Run1, loc, retry, calls, cmds, stderr>>

\* join.rs:337-338
WriteKubeletArgs ==
  /\ pc = "kubelet_args"
  /\ LET a == get_kubelet_args(node, Unwrap(loc.instance_metadata),
                               Unwrap(loc.kubelet_version), Unwrap(loc.private_dns_name))
     IN  IF ~IsOk(a)
         THEN /\ fs' = fs
              /\ Finish("kubelet_args", a.tag, "", "")
         ELSE \E fail \in FailPoints, remove_fails \in BOOLEAN :
                WriteStep("kubelet_args", ARGS_PATH, Args_content(Val(a)),
                          args_write(fs[ARGS_PATH], Args_content(Val(a)), remove_fails, fail))
  /\ UNCHANGED <<Run1, loc, retry, calls, cmds, stdout, stderr>>

\* join.rs:339-340
WriteKubeletExtraArgs ==
  /\ pc = "kubelet_extra_args"
  /\ LET bytes == ExtraArgs_content(node.kubelet_extra_args)
     IN  \E fail \in FailPoints, remove_fails \in BOOLEAN :
           WriteStep("kubelet_extra_args", EXTRA_ARGS_PATH, bytes,
                     args_write(fs[EXTRA_ARGS_PATH], bytes, remove_fails, fail))
  /\ UNCHANGED <<Run1, loc, retry, calls, cmds, stdout, stderr>>

\* join.rs:342-343
WriteContainerdConfig ==
  /\ pc = "containerd_config"
  /\ LET sandbox_img == get_pause_container_image(node, Unwrap(loc.instance_metadata))
         config == ContainerdConfiguration_new(node.default_container_runtime, sandbox_img)
         bytes == ContainerdConfiguration_serialize(config)
     IN  \E fail \in FailPoints :
           WriteStep("containerd_config", CONTAINERD_CONFIG_PATH, bytes,
                     write_file(fs[CONTAINERD_CONFIG_PATH], bytes, "0644", TRUE, fail))
  /\ UNCHANGED <<Run1, loc, retry, calls, cmds, stdout, stderr>>

\* join.rs:346; containerd/mod.rs: create_sandbox_image_service
CreateSandboxImageService ==
  /\ pc = "create_sandbox_image_service"
  /\ LET bytes == sandbox_image_service_content(Unwrap(loc.pause_image))
     IN  \E fail \in FailPoints :
           WriteStep("create_sandbox_image_service", SANDBOX_IMAGE_SERVICE_PATH, bytes,
                     write_file(fs[SANDBOX_IMAGE_SERVICE_PATH], bytes, "0644", TRUE, fail))
  /\ UNCHANGED <<Run1, loc, retry, calls, cmds, stdout, stderr>>

\* what nvidia-smi prints for --query-supported-clocks=<type> --format=csv: a
\* header and a line for each clock the GPU supports
SupportedClocks(clock_type) ==
  IF clock_type = "graphics" THEN <<"graphics [MHz]", "1965 MHz", "1980 MHz", "210 MHz">>
  ELSE <<"memory [MHz]", "5001 MHz", "810 MHz">>

\* The characters str::split_whitespace splits on (Unicode White_Space) that a
\* string of this module can hold: space, tab, line feed, form feed, carriage
\* return, vertical tab (U+000B), next line (U+0085), no-break space (U+00A0) and
\* ogham space mark (U+1680).  The remaining members, U+2000..U+200A, U+2028,
\* U+2029, U+202F, U+205F and U+3000, cannot be written in a string here.
WhiteSpace == {" ", "\t", "\n", "\f", "\r", "", "", " ", " "}

\* line.split_whitespace().next(): the first run of characters that are not blank
RECURSIVE WordEnd(_, _)
WordEnd(s, i) ==
  IF i <= Len(s) /\ Ch(s, i) \notin WhiteSpace THEN WordEnd(s, i + 1) ELSE i
RECURSIVE WordStart(_, _)
WordStart(s, i) ==
  IF i <= Len(s) /\ Ch(s, i) \in WhiteSpace THEN WordStart(s, i + 1) ELSE i
FirstWord(line) ==
  LET b == WordStart(line, 1) IN SubSeq(line, b, WordEnd(line, b) - 1)

\* str::parse::<i32>: an optional sign, then digits, within the range of i32
ParseI32(word) ==
  LET signed == word # "" /\ Ch(word, 1) \in {"+", "-"}
      digits == IF signed THEN SubSeq(word, 2, Len(word)) ELSE word
      n == ParseNat(digits, 0)
      v == IF signed /\ Ch(word, 1) = "-" THEN 0 - n ELSE n
  IN  IF digits = "" \/ \E i \in 1..Len(digits) : ~IsDigit(Ch(digits, i)) THEN None
      ELSE IF v > 2147483647 \/ v < (0 - 2147483647) - 1 THEN None
      ELSE Some(v)

\* gpu.rs: get_nvidia_max_clock: the largest of the numbers the lines of the
\* output begin with; an output without one is an error
get_nvidia_max_clock(lines) ==
  LET clock_speeds == {Unwrap(ParseI32(FirstWord(lines[i]))) :
                         i \in {j \in 1..Len(lines) : IsSome(ParseI32(FirstWord(lines[j])))}}
  IN  IF clock_speeds = {} THEN Err
      ELSE Ok(CHOOSE max_clock \in clock_speeds : \A c \in clock_speeds : c <= max_clock)

\* gpu.rs: set_nvidia_max_clock: the nvidia-smi commands in the order they are
\* spawned; the last three carry the clocks the two queries found
NvidiaCommands(graph_max_clock, mem_max_clock) ==
  <<<<"-pm", "1">>, <<"--query-supported-clocks=graphics", "--format=csv">>,
    <<"--query-supported-clocks=memory", "--format=csv">>, <<"--auto-boost-default=0">>,
    <<"--applications-clocks", ToString(mem_max_clock) \o "," \o ToString(graph_max_clock)>>,
    <<"--lock-gpu-clocks", ToString(mem_max_clock)>>,
    <<"--lock-memory-clocks", ToString(mem_max_clock)>>>>

\* join.rs:348-351: the first k commands run, and the function fails at command
\* k + 1 (it cannot be spawned, or it is a query and prints no clock) unless k is
\* all of them
SetNvidiaMaxClock ==
  /\ pc = "set_nvidia_max_clock"
  /\ \E k \in 0..7, spawn_fails \in BOOLEAN :
       LET no_clock == ~spawn_fails /\ k < 7
           graphics == get_nvidia_max_clock(IF no_clock /\ k + 1 = 2 THEN <<>>
                                            ELSE SupportedClocks("graphics"))
           memory == get_nvidia_max_clock(IF no_clock /\ k + 1 = 3 THEN <<>>
                                          ELSE SupportedClocks("memory"))
           commands == NvidiaCommands(IF IsOk(graphics) THEN Val(graphics) ELSE 0,
                                      IF IsOk(memory) THEN Val(memory) ELSE 0)
       IN  /\ spawn_fails => k < 7
           /\ no_clock => k + 1 \in {2, 3}
           /\ cmds' = cmds
                      \o [i \in 1..k |-> Spawned("nvidia-smi", commands[i], Some(0))]
                      \o (IF k = 7 THEN <<>>
                          ELSE <<Spawned("nvidia-smi", commands[k + 1],
                                         IF spawn_fails THEN None ELSE Some(1))>>)
           /\ fs' = fs
           /\ Finish("set_nvidia_max_clock",
                     IF k = 7 /\ IsOk(graphics) /\ IsOk(memory) THEN "Ok" ELSE "Err", "", "")
  /\ UNCHANGED <<Run1, loc, retry, calls, stdout, stderr>>

\* utils.rs: cmd_exec: Err only when the command cannot be spawned; the exit
\* status of a command that ran is carried in the result
cmd_exec(status) == IF status = None THEN "Err" ELSE "Ok"

\* the systemctl commands so far that ran and exited with a non-zero status
NonZeroExits ==
  Cardinality({i \in 1..Len(cmds) : cmds[i].cmd = "systemctl" /\ cmds[i].status = Some(1)})

\* a statement utils::cmd_exec("systemctl", args)?
Systemctl(step, args) ==
  /\ pc = step
  /\ \E status \in {None, Some(0), Some(1)} :
       /\ status = Some(1) => NonZeroExits < MaxNonZeroExits
       /\ cmds' = Append(cmds, Spawned("systemctl", args, status))
       /\ fs' = fs
       /\ Finish(step, cmd_exec(status), "", "")
  /\ UNCHANGED <<Run1, loc, retry, calls, stdout, stderr>>

\* join.rs:354-357
DaemonReload == Systemctl("daemon_reload", <<"daemon-reload">>)
Enable == Systemctl("enable", <<"enable", "containerd", "sandbox-image", "kubelet">>)
ReloadOrRestartContainerd ==
  Systemctl("reload_or_restart_containerd", <<"reload-or-restart", "containerd">>)
Start == Systemctl("start", <<"start", "sandbox-image", "kubelet">>)

\* main.rs:41-47 and the runtime: Ok ends the process with 0, Err with
\* process::exit(2), a panic with the runtime's status 101
exit_status(returned) ==
  CASE returned = "Ok" -> 0
    [] returned = "Err" -> 2
    [] returned = "Panic" -> 101

\* main.rs:41-47: main prints the error it was returned; a panic prints its
\* message on its own
Main ==
  /\ pc = "main"
  /\ pc' = "exited"
  /\ exit_code' = Some(exit_status(ret))
  /\ stderr' = IF ret = "Ok" THEN stderr ELSE Append(stderr, ret)
  /\ UNCHANGED <<node, world, fs, loc, retry, log, calls, cmds, stdout, ret, run, hist, fn>>

\* the command is run again on the same instance, after a run that succeeded
Rerun ==
  /\ pc = "exited"
  /\ ret = "Ok"
  /\ run < MaxRuns
  /\ run' = run + 1
  /\ hist' = [fs0 |-> fs, prev_ret |-> ret]
  /\ pc' = JoinOrder[1]
  /\ loc' = NoLocals
  /\ retry' = NoRetry
  /\ log' = <<>>
  /\ calls' = NoCalls
  /\ cmds' = <<>>
  /\ stdout' = <<>>
  /\ stderr' = <<>>
  /\ ret' = "none"
  /\ exit_code' = None
  /\ UNCHANGED <<node, world, fs, fn>>

Init ==
  /\ node \in NodeInputs
  /\ world \in Worlds
  /\ fs \in InitialFiles
  /\ Deviations(node, world, fs) <= MaxDeviations
  /\ pc = JoinOrder[1]
  /\ loc = NoLocals
  /\ retry = NoRetry
  /\ log = <<>>
  /\ calls = NoCalls
  /\ cmds = <<>>
  /\ stdout = <<>>
  /\ stderr = <<>>
  /\ ret = "none"
  /\ exit_code = None
  /\ run = 1
  /\ hist = [fs0 |-> fs, prev_ret |-> "none"]
  /\ fn = NoFn

Next ==
  \/ GetImdsData
  \/ GetCluster
  \/ GetKubeletVersion
  \/ GetMaxPods
  \/ GetPauseContainerImage
  \/ GetClient
  \/ GetPrivateDnsName
  \/ WriteCaCert
  \/ UpdateEtcHosts
  \/ WriteCredentialProviderConfig
  \/ WriteKubeletKubeconfig
  \/ WriteKubeletConfig
  \/ WriteKubeletArgs
  \/ WriteKubeletExtraArgs
  \/ WriteContainerdConfig
  \/ CreateSandboxImageService
  \/ SetNvidiaMaxClock
  \/ DaemonReload
  \/ Enable
  \/ ReloadOrRestartContainerd
  \/ Start
  \/ Main
  \/ Rerun

Spec == Init /\ [][Next]_vars

\* the runtime polls the future of get_private_dns_name until it is ready: an
\* attempt that can be made is made
FairSpec == Spec /\ WF_vars(GetPrivateDnsName)

----------------------------------------------------------------------------
(* The pure functions, each applied once to arguments drawn at the start *)

\* VPC CIDR blocks as the metadata service lists them (a /16 to a /28 each)
VpcBlocks ==
  {Net(V4(10, 0, 0, 0), 16), Net(V4(10, 200, 16, 0), 20), Net(V4(192, 168, 0, 0), 16),
   Net(V4(172, 31, 0, 0), 16), Net(V4(11, 0, 0, 0), 16), Net(V4(100, 64, 0, 0), 16)}

\* the lists of at most n blocks
RECURSIVE BlockLists(_)
BlockLists(n) ==
  IF n = 0 THEN {<<>>}
  ELSE BlockLists(n - 1)
       \cup {Append(l, b) : l \in {x \in BlockLists(n - 1) : Len(x) = n - 1}, b \in VpcBlocks}

ServiceCidrs ==
  {None, Some(Net(V4(10, 100, 7, 9), 16)), Some(Net(V6(<<64768, 0, 0, 0, 0, 0, 0, 0>>), 108)),
   Some(Net(V4(172, 16, 37, 5), 20)), Some(Net(V4(192, 168, 1, 77), 28)),
   Some(Net(V4(192, 168, 1, 9), 29)),
   Some(Net(V6(<<8193, 3512, 8, 4, 0, 0, 0, 2>>), 62)),
   Some(Net(V6(<<8193, 3512, 34211, 2259, 4889, 35374, 880, 29512>>), 126))}

DeriveCalls ==
  [op : {"derive_cluster_dns_ip"},
   args : ServiceCidrs \X {"Ipv4", "Ipv6"} \X BlockLists(MaxVpcBlocks),
   out : {None}]

\* the call is made and its result kept
Derive ==
  /\ fn.op = "derive_cluster_dns_ip"
  /\ fn.out = None
  /\ fn' = [fn EXCEPT !.out = Some(derive_cluster_dns_ip(fn.args[1], fn.args[2], fn.args[3]))]
  /\ stdout' = stdout \o derive_cluster_dns_ip_prints(fn.args[1])
  /\ UNCHANGED <<node, world, fs, pc, loc, retry, log, calls, cmds, stderr,
                 ret, exit_code, run, hist>>

\* ec2.rs: get_instance_type: the metadata service reports the type of the
\* instance, or the request fails
InstanceTypeAnswers == {Ok(t) : t \in DOMAIN Instances \cup {"x9.large"}} \cup {Err}

\* `eksnode calculate-max-pods` as the command line gives its arguments: the
\* argument group takes exactly one of --instance-type and
\* --instance-type-from-imds; imds is what the metadata service answers on the
\* host the command runs on
CniVersions == {"1.8.0", "1.9.0", "v1.10.0-eksbuild.2", "latest", "1.09.0"}
CalculateCalls ==
  [op : {"calculate"},
   args : [instance_type : {Some(t) : t \in DOMAIN Instances \cup {"x9.large"}},
           instance_type_from_imds : {FALSE},
           cni_version : CniVersions,
           cni_custom_networking_enabled : BOOLEAN,
           cni_prefix_delegation_enabled : BOOLEAN,
           cni_max_enis : {None, Some(0), Some(1), Some(2), Some(20)}],
   imds : {Ok("c5.large")},
   out : {None}]
  \cup
  [op : {"calculate"},
   args : [instance_type : {None},
           instance_type_from_imds : {TRUE},
           cni_version : CniVersions,
           cni_custom_networking_enabled : BOOLEAN,
           cni_prefix_delegation_enabled : BOOLEAN,
           cni_max_enis : {None, Some(0), Some(1), Some(2), Some(20)}],
   imds : InstanceTypeAnswers,
   out : {None}]

Calculate ==
  /\ fn.op = "calculate"
  /\ fn.out = None
  /\ fn' = [fn EXCEPT !.out = Some(calculate(fn.args, fn.imds))]
  /\ stdout' = IF IsOk(calculate(fn.args, fn.imds))
               THEN Append(stdout, ToString(Val(calculate(fn.args, fn.imds))))
               ELSE stdout
  /\ UNCHANGED <<node, world, fs, pc, loc, retry, log, calls, cmds, stderr,
                 ret, exit_code, run, hist>>

\* resource.rs: calculate_eni_max_pods takes any i32 for its two counts
EniMaxPodsCalls ==
  [op : {"calculate_eni_max_pods"},
   args : (-2..MaxEnis) \X (-1..MaxIpv4PerEni) \X BOOLEAN,
   out : {None}]

CalculateEniMaxPods ==
  /\ fn.op = "calculate_eni_max_pods"
  /\ fn.out = None
  /\ fn' = [fn EXCEPT !.out = Some(calculate_eni_max_pods(fn.args[1], fn.args[2], fn.args[3]))]
  /\ UNCHANGED <<node, world, fs, pc, loc, retry, log, calls, cmds, stdout, stderr,
                 ret, exit_code, run, hist>>

\* resource.rs: cpu_millicores_to_reserve(max_pods, num_cpus)
CpuReserveCalls ==
  [op : {"cpu_millicores_to_reserve"},
   args : {4, 109, 110, 111, 250} \X (0..MaxCpus),
   out : {None}]

CpuMillicoresToReserve ==
  /\ fn.op = "cpu_millicores_to_reserve"
  /\ fn.out = None
  /\ fn' = [fn EXCEPT !.out = Some(cpu_millicores_to_reserve(fn.args[1], fn.args[2]))]
  /\ UNCHANGED <<node, world, fs, pc, loc, retry, log, calls, cmds, stdout, stderr,
                 ret, exit_code, run, hist>>

\* version strings as the add-on, the command line or `kubelet --version` give them
VersionStrings ==
  {"1.8.0", "1.9.0", "1.10.0", "v1.9.0-eksbuild.2", "v1.8.0-eksbuild.1", "1.8.10",
   "2.0.0", "0.10.0", "Kubernetes v1.26.4-eks-0a21954\n", "1.9", "foo", "", "1.09.0"}

\* resource.rs: prefix_delegation_supported(cni_ver)
PrefixDelegationCalls ==
  [op : {"prefix_delegation_supported"}, args : VersionStrings, out : {None}]

PrefixDelegationSupported ==
  /\ fn.op = "prefix_delegation_supported"
  /\ fn.out = None
  /\ fn' = [fn EXCEPT !.out = Some(prefix_delegation_supported(fn.args))]
  /\ UNCHANGED <<node, world, fs, pc, loc, retry, log, calls, cmds, stdout, stderr,
                 ret, exit_code, run, hist>>

\* kubelet versions as get_semver parses them, around the gates of the builders
KubeletVersions ==
  {<<1, 9, 0>>, <<1, 21, 14>>, <<1, 22, 0>>, <<1, 25, 16>>, <<1, 26, 0>>, <<1, 26, 4>>,
   <<1, 27, 0>>, <<1, 27, 9>>, <<1, 28, 0>>, <<1, 30, 2>>, <<2, 0, 0>>}

\* join.rs: get_kubelet_config as join_node_to_cluster calls it; the number of
\* vCPUs is what num_cpus::get() finds on the host
KubeletConfigCalls ==
  [op : {"get_kubelet_config"},
   args : [n : {[(CHOOSE m \in NodeInputs : TRUE) EXCEPT !.use_max_pods = b] : b \in BOOLEAN},
           cluster_dns_ip : {V4(10, 1, 0, 10)},
           max_pods : {4, 110, 250},
           kubelet_version : KubeletVersions,
           num_cpus : {2, 96},
           availability_zone : {"us-east-1a"},
           instance_id : {"i-0e46d9575664f45bd"}],
   out : {None}]

GetKubeletConfig ==
  /\ fn.op = "get_kubelet_config"
  /\ fn.out = None
  /\ LET a == fn.args
     IN  fn' = [fn EXCEPT !.out =
                  Some(get_kubelet_config(a.n, a.cluster_dns_ip, a.max_pods, a.kubelet_version,
                                          a.num_cpus, a.availability_zone, a.instance_id))]
  /\ UNCHANGED <<node, world, fs, pc, loc, retry, log, calls, cmds, stdout, stderr,
                 ret, exit_code, run, hist>>

\* kubelet/credential.rs: CredentialProviderConfig::new(kubelet_version)
CredentialProviderCalls ==
  [op : {"CredentialProviderConfig_new"}, args : KubeletVersions, out : {None}]

NewCredentialProviderConfig ==
  /\ fn.op = "CredentialProviderConfig_new"
  /\ fn.out = None
  /\ fn' = [fn EXCEPT !.out = Some(CredentialProviderConfig_new(fn.args))]
  /\ UNCHANGED <<node, world, fs, pc, loc, retry, log, calls, cmds, stdout, stderr,
                 ret, exit_code, run, hist>>

\* containerd/mod.rs: get_plugins_config(default_runtime, sandbox_image)
PluginsConfigCalls ==
  [op : {"get_plugins_config"},
   args : {"Containerd", "Neuron", "Nvidia"}
          \X {"602401143452.dkr.ecr.us-east-1.amazonaws.com/eks/pause:3.8",
              "registry.example/pause:1"},
   out : {None}]

GetPluginsConfig ==
  /\ fn.op = "get_plugins_config"
  /\ fn.out = None
  /\ fn' = [fn EXCEPT !.out = Some(get_plugins_config(fn.args[1], fn.args[2]))]
  /\ UNCHANGED <<node, world, fs, pc, loc, retry, log, calls, cmds, stdout, stderr,
                 ret, exit_code, run, hist>>

\* join.rs: get_kubelet_args as join_node_to_cluster calls it
KubeletArgsCalls ==
  [op : {"get_kubelet_args"},
   args : [n : {[(CHOOSE m \in NodeInputs : TRUE) EXCEPT !.ip_family = f] :
                  f \in {"Ipv4", "Ipv6"}},
           imds : {Imds(<<Net(V4(10, 0, 0, 0), 16)>>, ip, "c5.large") :
                     ip \in {None, Some(V4(10, 0, 1, 7))}},
           kubelet_version : KubeletVersions,
           private_dns_name : {"ip-10-0-1-7.ec2.internal"}],
   out : {None}]

GetKubeletArgs ==
  /\ fn.op = "get_kubelet_args"
  /\ fn.out = None
  /\ LET a == fn.args
     IN  fn' = [fn EXCEPT !.out =
                  Some(get_kubelet_args(a.n, a.imds, a.kubelet_version, a.private_dns_name))]
  /\ UNCHANGED <<node, world, fs, pc, loc, retry, log, calls, cmds, stdout, stderr,
                 ret, exit_code, run, hist>>

FnInit ==
  /\ \/ fn \in DeriveCalls
     \/ fn \in PluginsConfigCalls
     \/ fn \in CalculateCalls
     \/ fn \in EniMaxPodsCalls
     \/ fn \in CpuReserveCalls
     \/ fn \in PrefixDelegationCalls
     \/ fn \in KubeletConfigCalls
     \/ fn \in CredentialProviderCalls
     \/ fn \in KubeletArgsCalls
  /\ node = CHOOSE n \in NodeInputs : TRUE
  /\ world = CHOOSE w \in Worlds : TRUE
  /\ fs = CHOOSE f \in InitialFiles : TRUE
  /\ pc = "fn"
  /\ loc = NoLocals
  /\ retry = NoRetry
  /\ log = <<>>
  /\ calls = NoCalls
  /\ cmds = <<>>
  /\ stdout = <<>>
  /\ stderr = <<>>
  /\ ret = "none"
  /\ exit_code = None
  /\ run = 1
  /\ hist = [fs0 |-> fs, prev_ret |-> "none"]

FnNext ==
  \/ Derive
  \/ Calculate
  \/ CalculateEniMaxPods
  \/ CpuMillicoresToReserve
  \/ PrefixDelegationSupported
  \/ GetKubeletConfig
  \/ NewCredentialProviderConfig
  \/ GetPluginsConfig
  \/ GetKubeletArgs

SpecFn == FnInit /\ [][FnNext]_vars

----------------------------------------------------------------------------
(* The claims *)

\* what the log, the locals and the files of the current run say
Logged(step) == \E i \in 1..Len(log) : log[i].step = step
LoggedOk(step) == \E i \in 1..Len(log) : log[i].step = step /\ log[i].res = "Ok"
LastEntry == log[Len(log)]
Resolved == IsSome(loc.cluster)
ResolvedLocal == Resolved /\ Unwrap(loc.cluster).is_local_cluster
IsPrefix(a, b) == Len(a) <= Len(b) /\ SubSeq(b, 1, Len(a)) = a
RunEnded == pc \in {"main", "exited"}

\* the steps as claim C1 lists them
ClaimedOrder ==
  <<"get_imds_data", "get_cluster", "get_kubelet_version", "get_max_pods",
    "get_pause_container_image", "get_private_dns_name", "write_ca_cert",
    "update_etc_hosts", "credential_provider_config", "kubelet_kubeconfig",
    "kubelet_config", "kubelet_args", "kubelet_extra_args", "containerd_config",
    "create_sandbox_image_service", "set_nvidia_max_clock", "daemon_reload",
    "enable", "reload_or_restart_containerd", "start">>

\* the write steps every run has
WriteSteps ==
  {"write_ca_cert", "credential_provider_config", "kubelet_kubeconfig", "kubelet_config",
   "kubelet_args", "kubelet_extra_args", "containerd_config", "create_sandbox_image_service"}

\* the steps of ClaimedOrder that apply to this run: the hosts step for a
\* cluster resolved as local, the GPU step for the Nvidia runtime
ClaimedSteps ==
  SelectSeq(ClaimedOrder,
            LAMBDA s : /\ s = "update_etc_hosts" => ResolvedLocal
                       /\ s = "set_nvidia_max_clock" => node.default_container_runtime = "Nvidia")

\* the steps of this run so far that the claim names
StepsSoFar ==
  LET named == SelectSeq(log, LAMBDA e : e.step # "get_client")
  IN  [i \in 1..Len(named) |-> named[i].step]

\* C1: the steps of a run are a prefix of the claimed order (hosts step for a
\* local cluster only, GPU step for Nvidia only), each begun after the one
\* before returned Ok; no file is written before the private DNS name is
\* resolved; no systemctl command runs before every write step has written.
C1_StepsInClaimedOrder ==
  /\ Len(StepsSoFar) <= Len(ClaimedSteps)
  /\ \A i \in 1..Len(StepsSoFar) : StepsSoFar[i] = ClaimedSteps[i]
  /\ \A i \in 1..(Len(log) - 1) : log[i].res = "Ok"
  /\ loc.private_dns_name = None => fs = hist.fs0
  /\ (\E i \in 1..Len(cmds) : cmds[i].cmd = "systemctl")
       => \A s \in WriteSteps : LoggedOk(s)

\* a step that returned an error is the last step of its run, the run has ended
\* with what the step returned and, once the process has exited, with a non-zero
\* status; after such a write step there is no systemctl command.
ErrorEndsRun ==
  \A i \in 1..Len(log) :
    log[i].res # "Ok"
    => /\ i = Len(log)
       /\ RunEnded
       /\ ret = log[i].res
       /\ pc = "exited" => exit_code \notin {None, Some(0)}
       /\ log[i].step \in WriteSteps => \A j \in 1..Len(cmds) : cmds[j].cmd # "systemctl"

\* the write steps of this run whose bytes did not reach the file: the file does
\* not begin with what the step generated for it
FailedWrites ==
  {i \in 1..Len(log) :
     /\ log[i].step \in {"credential_provider_config", "kubelet_kubeconfig",
                       "kubelet_config"}
     /\ ~IsPrefix(log[i].bytes, fs[log[i].path].content)}

\* C2: when a step of the join pipeline fails, no later step runs (no later file
\* is written, no systemd unit is enabled or started) and the run ends with an
\* error: a step that returned an error, or whose write to its file failed, is
\* the last step of its run and the run has returned an error.
C2_NoStepAfterFailure ==
  /\ ErrorEndsRun
  /\ \A i \in FailedWrites :
       /\ i = Len(log)
       /\ RunEnded
       /\ ret # "Ok"
       /\ \A j \in 1..Len(cmds) : cmds[j].cmd # "systemctl"

\* C3: after a write step that succeeded the file holds exactly the generated
\* bytes, has mode 0644 and belongs to root:root, whatever was there before.
C3_WriteReplacesFile ==
  \A i \in 1..Len(log) :
    (log[i].res = "Ok" /\ log[i].path \notin {"", HOSTS_PATH})
    => LET f == fs[log[i].path]
       IN  /\ f.exists
           /\ f.content = log[i].bytes
           /\ f.mode = "0644"
           /\ f.uid = 0
           /\ f.gid = 0

\* C4: after a second successful run every produced file is as it was after
\* the first; the hosts file alone grows, and only for a local cluster.
C4_RerunIdempotent ==
  (run > 1 /\ pc = "exited" /\ ret = "Ok" /\ hist.prev_ret = "Ok")
  => /\ \A p \in Paths \ {HOSTS_PATH} : fs[p] = hist.fs0[p]
     /\ IF ResolvedLocal
        THEN /\ IsPrefix(hist.fs0[HOSTS_PATH].content, fs[HOSTS_PATH].content)
             /\ fs[HOSTS_PATH].content # hist.fs0[HOSTS_PATH].content
        ELSE fs[HOSTS_PATH] = hist.fs0[HOSTS_PATH]

\* C5, the state part: no attempt begins at or after the ceiling; the name
\* handed on is never empty; the lookup ends Ok with a name or Err without
\* one, and Err ends the run.
C5_LookupResult ==
  /\ pc = "get_private_dns_name" => retry.elapsed < FETCH_PRIVATE_DNS_NAME_TIMEOUT
  /\ IsSome(loc.private_dns_name) => Unwrap(loc.private_dns_name) # ""
  /\ \A i \in 1..Len(log) :
       log[i].step = "get_private_dns_name"
       => /\ calls.describe_instances >= 1
          /\ log[i].res \in {"Ok", "Err"}
          /\ log[i].res = "Ok" <=> IsSome(loc.private_dns_name)
          /\ log[i].res = "Err" => (i = Len(log) /\ RunEnded /\ ret = "Err")

\* C5, the step part: a failed attempt before the ceiling is followed by
\* another attempt, later on the clock; Err comes only from an attempt during
\* which the ceiling can be reached.
C5_RetryStep ==
  pc = "get_private_dns_name"
  => /\ pc' = "get_private_dns_name"
          => /\ retry'.elapsed > retry.elapsed
             /\ retry'.attempt = retry.attempt + 1
             /\ calls'.describe_instances = calls.describe_instances + 1
             /\ loc' = loc
     /\ ret' = "Err"
          => retry.elapsed + ReqSlowMillis + FibonacciBackoff(retry.attempt)
               >= FETCH_PRIVATE_DNS_NAME_TIMEOUT

\* C5: get_private_dns_name retries failed attempts until one yields a
\* non-empty name or the 300 s ceiling is reached; it always terminates, never
\* returns an empty name and never retries past the ceiling.
C5_PrivateDnsNameLookup ==
  /\ []C5_LookupResult
  /\ [][C5_RetryStep]_vars
  /\ (pc = "get_private_dns_name") ~> (pc # "get_private_dns_name")

\* C5: three attempts failed and the fourth was cut off by the ceiling
C5_Witness ==
  /\ Len(log) > 0
  /\ LastEntry.step = "get_private_dns_name"
  /\ LastEntry.res = "Err"
  /\ calls.describe_instances = 4
  /\ loc.private_dns_name = None
  /\ ret = "Err"

\* C6: a run that fails hands an error value to main, which prints one message
\* and exits with 2; the exit status is 0 only if every step succeeded.
C6_FailureExitsWith2 ==
  /\ \A i \in 1..Len(log) : log[i].res \in {"Ok", "Err"}
  /\ pc = "exited"
     => /\ exit_code = Some(0) <=> ret = "Ok"
        /\ ret = "Ok" => \A i \in 1..Len(log) : log[i].res = "Ok"
        /\ ret # "Ok" => (ret = "Err" /\ exit_code = Some(2) /\ Len(stderr) = 1)

BothSupplied == IsSome(node.apiserver_endpoint) /\ IsSome(node.b64_cluster_ca)

\* C7: with endpoint and CA both supplied no describe-cluster call is made and
\* the resolved cluster carries the supplied name, endpoint, CA and is-local
\* flag; otherwise a resolution makes exactly one call and takes name,
\* endpoint, CA and is-local (outpost configuration present) from the answer; the
\* DNS IP is derived from the flags and the VPC blocks alike on both paths.
C7_ClusterResolution ==
  /\ BothSupplied => calls.describe_cluster = 0
  /\ calls.describe_cluster <= 1
  /\ Resolved
     => LET c == Unwrap(loc.cluster)
        IN  /\ IF BothSupplied
               THEN /\ c.name = node.cluster_name
                    /\ c.endpoint = Unwrap(node.apiserver_endpoint)
                    /\ c.b64_ca = Unwrap(node.b64_cluster_ca)
                    /\ c.is_local_cluster = node.is_local_cluster
               ELSE /\ calls.describe_cluster = 1
                    /\ c.name = world.cluster.name
                    /\ c.endpoint = world.cluster.endpoint
                    /\ c.b64_ca = world.cluster.ca
                    /\ c.is_local_cluster = world.cluster.outpost_config
            /\ Ok(c.cluster_dns_ip)
                 = derive_cluster_dns_ip(node.service_cidr, node.ip_family,
                                         world.imds[2].vpc_ipv4_cidr_blocks)

\* C7: an endpoint was supplied without a CA: the cluster was described, once,
\* and the supplied endpoint is not the resolved one
C7_Witness ==
  /\ Resolved
  /\ IsSome(node.apiserver_endpoint)
  /\ node.b64_cluster_ca = None
  /\ calls.describe_cluster = 1
  /\ Unwrap(loc.cluster).endpoint = world.cluster.endpoint
  /\ Unwrap(loc.cluster).endpoint # Unwrap(node.apiserver_endpoint)

\* C8: the resolved is-local flag decides: when it is true the hosts file is
\* appended to and the kubeconfig goes to the bootstrap path, when it is false
\* neither happens.
C8_ResolvedFlagDecides ==
  Resolved
  => /\ Logged("credential_provider_config")
          => (LoggedOk("update_etc_hosts") <=> ResolvedLocal)
     /\ ~ResolvedLocal => ~Logged("update_etc_hosts")
     /\ \A i \in 1..Len(log) :
          (log[i].step = "kubelet_kubeconfig" /\ log[i].path # "")
          => log[i].path = (IF ResolvedLocal THEN BOOTSTRAP_KUBECONFIG_PATH
                            ELSE KUBECONFIG_PATH)

\* the text of one hosts line per address, in the order given
RECURSIVE HostsLines(_, _)
HostsLines(ips, endpoint) ==
  IF ips = <<>> THEN ""
  ELSE IpToString(Head(ips)) \o " " \o endpoint \o "\n" \o HostsLines(Tail(ips), endpoint)

\* C9: the hosts file only grows; for a non-local cluster a run leaves it
\* unchanged; for a local cluster the run appends one line "<ip> <endpoint>"
\* for each resolved address, in some order, behind the previous content.
C9_HostsAppendOnly ==
  LET old == hist.fs0[HOSTS_PATH].content
      new == fs[HOSTS_PATH].content
      ips == world.endpoint_ips
  IN  /\ IsPrefix(old, new)
      /\ ~ResolvedLocal => fs[HOSTS_PATH] = hist.fs0[HOSTS_PATH]
      /\ (ResolvedLocal /\ Logged("credential_provider_config"))
           => \E p \in Orders(Len(ips)) :
                new = old \o HostsLines([i \in 1..Len(ips) |-> ips[p[i]]],
                                        Unwrap(loc.cluster).endpoint)

\* a block falls inside 10.0.0.0/8
Inside10(block) ==
  /\ block.len >= 8
  /\ Network(Net(block.addr, 8)) = V4(10, 0, 0, 0)

\* C10: derive_cluster_dns_ip without a service CIDR: for Ipv4 the result is
\* 172.20.0.10 if some VPC block, at any position, falls inside 10.0.0.0/8 and
\* 10.100.0.10 otherwise (an empty list included); for Ipv6 it is an error that
\* carries no address.
C10_DnsIpWithoutServiceCidr ==
  (fn.op = "derive_cluster_dns_ip" /\ IsSome(fn.out) /\ fn.args[1] = None)
  => LET blocks == fn.args[3]
         out == Unwrap(fn.out)
     IN  IF fn.args[2] = "Ipv4"
         THEN out = Ok(IF \E i \in 1..Len(blocks) : Inside10(blocks[i])
                       THEN V4(172, 20, 0, 10) ELSE V4(10, 100, 0, 10))
         ELSE out.tag = "Err" /\ out.val = <<>>

\* C10: the derivation was applied to a list whose second block, and not its
\* first, falls inside 10.0.0.0/8
C10_Witness ==
  /\ fn.op = "derive_cluster_dns_ip" /\ IsSome(fn.out) /\ fn.args[1] = None
  /\ fn.args[2] = "Ipv4"
  /\ Len(fn.args[3]) = 2
  /\ ~Inside10(fn.args[3][1])
  /\ Inside10(fn.args[3][2])
  /\ Unwrap(fn.out) = Ok(V4(172, 20, 0, 10))

\* the address of a network with the bits behind the prefix set to zero,
\* segment by segment: a segment keeps its leading bits that the prefix covers
HostBitsCleared(net) ==
  LET width == IF net.addr.fam = "v4" THEN 8 ELSE 16
      free(i) == IF net.len >= width * i THEN 0
                 ELSE IF net.len <= width * (i - 1) THEN width
                 ELSE width * i - net.len
  IN  [i \in 1..Len(net.addr.segs) |->
         (net.addr.segs[i] \div Pow2(free(i))) * Pow2(free(i))]

\* C11: derive_cluster_dns_ip with a service CIDR: the result is the CIDR's
\* network address with its last octet (IPv4) or last 16-bit segment (IPv6)
\* replaced by 10 = 0xa, every other octet/segment being that of the network
\* address; the ip-family flag and the VPC blocks do not change it.
C11_DnsIpFromServiceCidr ==
  (fn.op = "derive_cluster_dns_ip" /\ IsSome(fn.out) /\ IsSome(fn.args[1]))
  => LET cidr == Unwrap(fn.args[1])
         out == Unwrap(fn.out)
         n == Len(cidr.addr.segs)
     IN  /\ IsOk(out)
         /\ Val(out).fam = cidr.addr.fam
         /\ Len(Val(out).segs) = n
         /\ Val(out).segs[n] = 10
         /\ \A i \in 1..(n - 1) : Val(out).segs[i] = HostBitsCleared(cidr)[i]
         /\ \A f \in {"Ipv4", "Ipv6"}, b \in BlockLists(MaxVpcBlocks) :
              derive_cluster_dns_ip(fn.args[1], f, b) = out

\* C11: the derivation was applied to 2001:db8:8:4::2/62 under the Ipv4 flag
\* with a VPC block in 10.0.0.0/8 and gave 2001:db8:8:4::a
C11_Witness ==
  /\ fn.op = "derive_cluster_dns_ip" /\ IsSome(fn.out)
  /\ fn.args[1] = Some(Net(V6(<<8193, 3512, 8, 4, 0, 0, 0, 2>>), 62))
  /\ fn.args[2] = "Ipv4"
  /\ Len(fn.args[3]) = 1 /\ Inside10(fn.args[3][1])
  /\ Unwrap(fn.out) = Ok(V6(<<8193, 3512, 8, 4, 0, 0, 0, 10>>))

\* the max-pods value the formula gives for a row of the table: n interfaces
\* (the cap, if any, applied, one taken off for custom networking), m addresses
\* per address slot, and the clamp by the number of vCPUs
ClaimedN(i, input) ==
  (IF IsSome(input.cni_max_enis)
   THEN (IF Unwrap(input.cni_max_enis) < i.maximum_network_interfaces
         THEN Unwrap(input.cni_max_enis) ELSE i.maximum_network_interfaces)
   ELSE i.maximum_network_interfaces)
  - (IF input.cni_custom_networking_enabled THEN 1 ELSE 0)
AtLeast190(v) ==
  v[1] > 1 \/ (v[1] = 1 /\ v[2] > 9) \/ (v[1] = 1 /\ v[2] = 9 /\ v[3] >= 0)
ClaimedM(i, input, cni) ==
  IF input.cni_prefix_delegation_enabled /\ i.hypervisor = "nitro" /\ AtLeast190(cni)
  THEN 16 ELSE 1
ClaimedMaxPods(i, input, cni) ==
  LET E == ClaimedN(i, input) * ((i.ipv4_addresses_per_interface - 1) * ClaimedM(i, input, cni)) + 2
      limit == IF i.default_vcpus > 30 THEN 250 ELSE 110
  IN  IF E < limit THEN E ELSE limit

\* the versions of CniVersions as numbers; a string without a valid
\* major.minor.patch triple has none
CniTriple(s) ==
  IF s = "1.8.0" THEN <<1, 8, 0>>
  ELSE IF s = "1.9.0" THEN <<1, 9, 0>>
  ELSE IF s = "v1.10.0-eksbuild.2" THEN <<1, 10, 0>>
  ELSE <<0, 0, 0>>
CniParses(s) == s \in {"1.8.0", "1.9.0", "v1.10.0-eksbuild.2"}

CalculateDone == fn.op = "calculate" /\ IsSome(fn.out)
InTable(t) == t \in DOMAIN Instances

\* the instance type a call of calculate is about: the one given, or the one the
\* metadata service reports; none when the request to the service failed
TypeOfCall ==
  IF ~fn.args.instance_type_from_imds THEN fn.args.instance_type
  ELSE IF IsOk(fn.imds) THEN Some(Val(fn.imds)) ELSE None
TypeInTable == IsSome(TypeOfCall) /\ InTable(Unwrap(TypeOfCall))

\* C12 as stated: for an instance type of the table, calculate returns
\* clamp(n * ((ipv4_per_interface - 1) * m) + 2), whatever the CNI version
\* string is (m = 1 when the version is not at least 1.9.0).
C12_CalculateFormula ==
  (CalculateDone /\ TypeInTable)
  => Unwrap(fn.out) =
       Ok(ClaimedMaxPods(Instances[Unwrap(TypeOfCall)], fn.args,
                         CniTriple(fn.args.cni_version)))

\* C12 amended: for an instance type of the table, given or reported by the
\* metadata service, calculate returns a value iff the CNI version string holds
\* a valid major.minor.patch triple, and the value is
\* clamp(n * ((ipv4_per_interface - 1) * m) + 2); it never exceeds 250, never
\* exceeds 110 for at most 30 vCPUs, and asking for prefix delegation on a
\* non-nitro instance or with a CNI below 1.9.0 gives the result of not asking
\* for it.  When the type is to come from the metadata service and the request
\* fails, calculate returns that error and no value.
C12_CalculateFormulaParsedCni ==
  /\ (CalculateDone /\ fn.args.instance_type_from_imds /\ ~IsOk(fn.imds))
     => Unwrap(fn.out) = Err
  /\ (CalculateDone /\ TypeInTable)
     => LET i == Instances[Unwrap(TypeOfCall)]
            out == Unwrap(fn.out)
            cni == CniTriple(fn.args.cni_version)
        IN  /\ IsOk(out) <=> CniParses(fn.args.cni_version)
            /\ IsOk(out) =>
                 /\ Val(out) = ClaimedMaxPods(i, fn.args, cni)
                 /\ Val(out) <= 250
                 /\ i.default_vcpus <= 30 => Val(out) <= 110
                 /\ (i.hypervisor # "nitro" \/ ~AtLeast190(cni))
                    => out = calculate([fn.args EXCEPT !.cni_prefix_delegation_enabled = FALSE],
                                       fn.imds)

\* C12: prefix delegation was asked for on the xen instance m4.large, the type
\* reported by the metadata service, with CNI 1.9.0 and two interfaces, one of
\* them kept for custom networking: 11 pods
C12_Witness ==
  /\ CalculateDone
  /\ fn.args.instance_type_from_imds
  /\ fn.imds = Ok("m4.large")
  /\ fn.args.cni_version = "1.9.0"
  /\ fn.args.cni_prefix_delegation_enabled
  /\ fn.args.cni_custom_networking_enabled
  /\ fn.args.cni_max_enis = Some(20)
  /\ Unwrap(fn.out) = Ok(11)

\* C13: an instance type absent from the capacity table is not by itself a
\* failure of join's max-pods step: the step derives a value for such a type
\* (CNI 1.10.0, no custom networking, no prefix delegation, no cap), and where
\* it does fail no file has been written.
C13_AbsentTypeDerived ==
  \A i \in 1..Len(log) :
    (log[i].step = "get_max_pods"
     /\ ~InTable(Unwrap(loc.instance_metadata).instance_type))
    => /\ log[i].res = "Ok"
       /\ IsSome(loc.max_pods)

EniMaxPodsDone == fn.op = "calculate_eni_max_pods" /\ IsSome(fn.out)

\* one more interface, one more address per interface, and prefix delegation
\* switched on (for more than one address) each give at least the result of
\* the call made
NotDecreasing ==
  LET n == fn.args[1]
      ip == fn.args[2]
      out == Unwrap(fn.out)
  IN  /\ calculate_eni_max_pods(n + 1, ip, fn.args[3]) >= out
      /\ calculate_eni_max_pods(n, ip + 1, fn.args[3]) >= out
      /\ ip > 1 => calculate_eni_max_pods(n, ip, TRUE) >= calculate_eni_max_pods(n, ip, FALSE)

\* C14 as stated: calculate_eni_max_pods is non-decreasing in num_enis and in
\* ipv4_per_eni for every pair of integers it accepts, and prefix delegation
\* never lowers the result for ipv4_per_eni > 1 and every num_enis.
C14_Monotone == EniMaxPodsDone => NotDecreasing

\* C14 amended: the same for counts, that is for num_enis >= 0 and
\* ipv4_per_eni >= 1.
C14_MonotoneOnCounts ==
  (EniMaxPodsDone /\ fn.args[1] >= 0 /\ fn.args[2] >= 1) => NotDecreasing

\* C14: the function was applied to 3 interfaces of 10 addresses with prefix
\* delegation: 434 pods
C14_Witness ==
  /\ EniMaxPodsDone
  /\ fn.args = <<3, 10, TRUE>>
  /\ Unwrap(fn.out) = 434

\* the sum of the shares of vCPUs 0..num_cpus-1: 600, 100, 100, 50, 50, then
\* 25 each
ShareSum(num_cpus) ==
  IF num_cpus <= 0 THEN 0
  ELSE IF num_cpus = 1 THEN 600
  ELSE IF num_cpus = 2 THEN 700
  ELSE IF num_cpus = 3 THEN 800
  ELSE IF num_cpus = 4 THEN 850
  ELSE 900 + 25 * (num_cpus - 5)

\* x / 100 rounded to the nearest integer, a half rounded up
RoundedHundredth(x) == (x \div 100) + (IF x % 100 >= 50 THEN 1 ELSE 0)

ClaimedCpuReserve(max_pods, num_cpus) ==
  10 * RoundedHundredth(ShareSum(num_cpus) + (IF max_pods > 110 THEN 400 ELSE 0))

\* C15: cpu_millicores_to_reserve(max_pods, num_cpus) is 10 * round(S / 100),
\* S the sum of the shares of the vCPUs plus 400 if max_pods > 110 (not at
\* 110), halves rounded up; it is a multiple of 10, non-decreasing in
\* num_cpus, 70 for (4, 2) and 360 for (250, 96).
C15_CpuMillicores ==
  (fn.op = "cpu_millicores_to_reserve" /\ IsSome(fn.out))
  => LET out == Unwrap(fn.out)
     IN  /\ out = ClaimedCpuReserve(fn.args[1], fn.args[2])
         /\ out % 10 = 0
         /\ cpu_millicores_to_reserve(fn.args[1], fn.args[2] + 1) >= out
         /\ fn.args = <<4, 2>> => out = 70
         /\ fn.args = <<250, 96>> => out = 360

\* C15: the function was applied to 110 pods and 4 vCPUs: the sum 850 has no
\* 400 added and its half rounds up, 90 millicores
C15_Witness ==
  /\ fn.op = "cpu_millicores_to_reserve" /\ IsSome(fn.out)
  /\ fn.args = <<110, 4>>
  /\ Unwrap(fn.out) = 90

\* the major.minor.patch triple that each string of VersionStrings holds, as
\* numbers; <<>> for a string that holds none
TripleOf(s) ==
  IF s \in {"1.8.0", "v1.8.0-eksbuild.1"} THEN <<1, 8, 0>>
  ELSE IF s \in {"1.9.0", "v1.9.0-eksbuild.2", "1.09.0"} THEN <<1, 9, 0>>
  ELSE IF s = "1.10.0" THEN <<1, 10, 0>>
  ELSE IF s = "1.8.10" THEN <<1, 8, 10>>
  ELSE IF s = "2.0.0" THEN <<2, 0, 0>>
  ELSE IF s = "0.10.0" THEN <<0, 10, 0>>
  ELSE IF s = "Kubernetes v1.26.4-eks-0a21954\n" THEN <<1, 26, 4>>
  ELSE <<>>

\* C16: prefix_delegation_supported(v) is true iff the triple parsed out of v
\* is at least 1.9.0, components compared as numbers; a leading 'v' and a
\* trailing '-suffix' do not change the result; a string without a triple
\* yields an error value.
C16_PrefixDelegationSupported ==
  (fn.op = "prefix_delegation_supported" /\ IsSome(fn.out))
  => LET out == Unwrap(fn.out)
         t == TripleOf(fn.args)
     IN  /\ IF t = <<>> THEN out.tag = "Err" ELSE out = Ok(AtLeast190(t))
         /\ prefix_delegation_supported("v" \o fn.args) = out
         /\ prefix_delegation_supported(fn.args \o "-eksbuild.2") = out

KubeletConfigDone == fn.op = "get_kubelet_config" /\ IsSome(fn.out)

\* a version as one number: major, minor and patch compared in this order
VersionNumber(v) == (v[1] * 1000 + v[2]) * 1000 + v[3]

\* C17: get_kubelet_config applies the version gates at their boundaries:
\* kube_api_qps = 10 and kube_api_burst = 20 iff 1.22.0 <= v < 1.27.0, both
\* unset otherwise; provider_id is unset iff v < 1.26.0 and is
\* aws:///<availability-zone>/<instance-id> otherwise; the gate
\* KubeletCredentialProviders is present iff v < 1.28.0; the gate
\* RotateKubeletServerCertificate is present for every version.
C17_VersionGates ==
  KubeletConfigDone
  => LET c == Unwrap(fn.out)
         v == VersionNumber(fn.args.kubelet_version)
     IN  /\ IF 1022000 <= v /\ v < 1027000
            THEN c.kube_api_qps = Some(10) /\ c.kube_api_burst = Some(20)
            ELSE c.kube_api_qps = None /\ c.kube_api_burst = None
         /\ c.provider_id =
              (IF v < 1026000 THEN None
               ELSE Some("aws:///" \o fn.args.availability_zone \o "/" \o fn.args.instance_id))
         /\ ("KubeletCredentialProviders" \in c.feature_gates) <=> (v < 1028000)
         /\ "RotateKubeletServerCertificate" \in c.feature_gates

\* C17: the configuration was built for kubelet 1.26.0: the provider id is
\* set, the API limits are raised and both gates are there
C17_Witness ==
  /\ KubeletConfigDone
  /\ fn.args.kubelet_version = <<1, 26, 0>>
  /\ Unwrap(fn.out).provider_id = Some("aws:///us-east-1a/i-0e46d9575664f45bd")
  /\ Unwrap(fn.out).kube_api_qps = Some(10)
  /\ Unwrap(fn.out).feature_gates = {"KubeletCredentialProviders", "RotateKubeletServerCertificate"}

\* C18: max_pods is set iff the use-max-pods flag is true, and is then the
\* resolved max-pods value; the configuration built from the same inputs with
\* the flag inverted is the same in every other field (kube_reserved included).
C18_UseMaxPodsOnlySetsMaxPods ==
  KubeletConfigDone
  => LET c == Unwrap(fn.out)
         a == fn.args
         other == get_kubelet_config([a.n EXCEPT !.use_max_pods = ~a.n.use_max_pods],
                                     a.cluster_dns_ip, a.max_pods, a.kubelet_version,
                                     a.num_cpus, a.availability_zone, a.instance_id)
     IN  /\ c.max_pods = (IF a.n.use_max_pods THEN Some(a.max_pods) ELSE None)
         /\ other.max_pods # c.max_pods
         /\ [other EXCEPT !.max_pods = None] = [c EXCEPT !.max_pods = None]
         /\ other.kube_reserved = c.kube_reserved

\* C18: the configuration was built for 250 pods without the flag: max_pods
\* is unset and the reservation is that of 250 pods
C18_Witness ==
  /\ KubeletConfigDone
  /\ ~fn.args.n.use_max_pods
  /\ fn.args.max_pods = 250
  /\ Unwrap(fn.out).max_pods = None
  /\ Unwrap(fn.out).kube_reserved.memory = "3005Mi"

\* decimal digits of a number below 10000
Decimal(x) ==
  LET d(k) == SubSeq(Digits, ((x \div k) % 10) + 1, ((x \div k) % 10) + 1)
  IN  (IF x >= 1000 THEN d(1000) ELSE "") \o (IF x >= 100 THEN d(100) ELSE "")
      \o (IF x >= 10 THEN d(10) ELSE "") \o d(1)

\* C19: kube_reserved comes from the capacity formulas applied to the resolved
\* max-pods value: memory is <11 * max_pods + 255>Mi (299 for 4 pods, 3005 for
\* 250), cpu is <cpu_millicores_to_reserve(max_pods, vCPUs)>m; anonymous auth
\* disabled, webhook authentication and authorization, the systemd cgroup
\* driver and the client CA file /etc/kubernetes/pki/ca.crt are the same for
\* every input.
C19_KubeReserved ==
  KubeletConfigDone
  => LET c == Unwrap(fn.out)
         a == fn.args
     IN  /\ c.kube_reserved.memory = Decimal(11 * a.max_pods + 255) \o "Mi"
         /\ a.max_pods = 4 => c.kube_reserved.memory = "299Mi"
         /\ a.max_pods = 250 => c.kube_reserved.memory = "3005Mi"
         /\ c.kube_reserved.cpu = Decimal(ClaimedCpuReserve(a.max_pods, a.num_cpus)) \o "m"
         /\ c.authentication.anonymous_enabled = FALSE
         /\ c.authentication.webhook_enabled = TRUE
         /\ c.authentication.x509_client_ca_file = "/etc/kubernetes/pki/ca.crt"
         /\ c.authorization.mode = "Webhook"
         /\ c.cgroup_driver = "systemd"

\* C19: the configuration was built for 4 pods on 2 vCPUs: 299Mi and 70m
C19_Witness ==
  /\ KubeletConfigDone
  /\ fn.args.max_pods = 4 /\ fn.args.num_cpus = 2
  /\ Unwrap(fn.out).kube_reserved.memory = "299Mi"
  /\ Unwrap(fn.out).kube_reserved.cpu = "70m"

\* C20: CredentialProviderConfig::new emits exactly one provider entry, named
\* ecr-credential-provider, with the same cache duration and the same ECR image
\* patterns for every kubelet version; the API version of that provider entry
\* is credentialprovider.kubelet.k8s.io/v1alpha1 below kubelet 1.27.0 and
\* credentialprovider.kubelet.k8s.io/v1 from 1.27.0 on.
C20_ProviderApiVersion ==
  (fn.op = "CredentialProviderConfig_new" /\ IsSome(fn.out))
  => LET c == Unwrap(fn.out)
     IN  /\ Len(c.providers) = 1
         /\ c.providers[1].name = "ecr-credential-provider"
         /\ c.providers[1].default_cache_duration = "12h"
         /\ \A v \in KubeletVersions :
              /\ CredentialProviderConfig_new(v).providers[1].match_images
                   = c.providers[1].match_images
              /\ CredentialProviderConfig_new(v).providers[1].default_cache_duration
                   = c.providers[1].default_cache_duration
         /\ c.providers[1].api_version =
              (IF VersionNumber(fn.args) < 1027000
               THEN "credentialprovider.kubelet.k8s.io/v1alpha1"
               ELSE "credentialprovider.kubelet.k8s.io/v1")

\* C21: get_kubelet_kubeconfig chooses path and identity together: for a local
\* cluster the kubeconfig goes to /var/lib/kubelet/bootstrap-kubeconfig and
\* the authenticator is given the cluster id, otherwise it goes to
\* /var/lib/kubelet/kubeconfig and the authenticator is given the cluster
\* name; the exec arguments are token -i <identity> --region <region> and the
\* server is the resolved endpoint.
C21_PathAndIdentity ==
  \A i \in 1..Len(log) :
    (log[i].step = "kubelet_kubeconfig" /\ log[i].res = "Ok")
    => LET cluster == Unwrap(loc.cluster)
           region == Unwrap(loc.instance_metadata).region
           identity == IF ResolvedLocal THEN Unwrap(node.cluster_id) ELSE cluster.name
           k == KubeConfig_new(cluster.endpoint, identity, region)
       IN  /\ log[i].path = (IF ResolvedLocal THEN "/var/lib/kubelet/bootstrap-kubeconfig"
                             ELSE "/var/lib/kubelet/kubeconfig")
           /\ (ResolvedLocal => IsSome(node.cluster_id))
           /\ k.users[1].exec.args = <<"token", "-i", identity, "--region", region>>
           /\ k.clusters[1].server = cluster.endpoint
           /\ log[i].bytes = KubeConfig_serialize(k)

\* the entry of a runtimes map for a name; <<>> when the map has none
RuntimeNamed(runtimes, name) ==
  LET hits == SelectSeq(runtimes, LAMBDA r : r[1] = name)
  IN  IF hits = <<>> THEN <<>> ELSE hits[1][2]

\* C22: the containerd plugin config of a runtime variant is the base with the
\* variant's overlay merged in deeply: default_runtime_name is runc, neuron or
\* nvidia; runtimes keeps the base's runc and, for Neuron and Nvidia, also
\* holds the variant's runtime (runtime type, SystemdCgroup = true, its own
\* BinaryName); sandbox_image, the CNI directories, the registry config_path
\* and discard_unpacked_layers are the same for the three variants.
C22_PluginsDeepMerge ==
  (fn.op = "get_plugins_config" /\ IsSome(fn.out))
  => LET p == Unwrap(fn.out)
         variant == fn.args[1]
         name == IF variant = "Neuron" THEN "neuron"
                 ELSE IF variant = "Nvidia" THEN "nvidia" ELSE "runc"
         binary == IF variant = "Neuron"
                   THEN "/opt/aws/neuron/bin/oci_neuron_hook_wrapper.sh"
                   ELSE "/usr/bin/nvidia-container-runtime"
         rts == p.containerd.runtimes
     IN  /\ p.containerd.default_runtime_name = name
         /\ RuntimeNamed(rts, "runc") =
              [runtime_type |-> "io.containerd.runc.v2", SystemdCgroup |-> TRUE,
               BinaryName |-> None]
         /\ IF variant = "Containerd" THEN Len(rts) = 1
            ELSE /\ Len(rts) = 2
                 /\ RuntimeNamed(rts, name) =
                      [runtime_type |-> "io.containerd.runc.v2", SystemdCgroup |-> TRUE,
                       BinaryName |-> Some(binary)]
         /\ p.sandbox_image = fn.args[2]
         /\ \A v \in {"Containerd", "Neuron", "Nvidia"} :
              LET q == get_plugins_config(v, fn.args[2])
              IN  /\ q.sandbox_image = p.sandbox_image
                  /\ q.cni = p.cni
                  /\ q.registry = p.registry
                  /\ q.containerd.discard_unpacked_layers = p.containerd.discard_unpacked_layers
         /\ p.cni = [bin_dir |-> "/opt/cni/bin", conf_dir |-> "/etc/cni/net.d"]
         /\ p.registry.config_path = "/etc/containerd/certs.d"

\* C22: the plugin config was built for Nvidia: two runtimes, nvidia the default
C22_Witness ==
  /\ fn.op = "get_plugins_config" /\ IsSome(fn.out)
  /\ fn.args[1] = "Nvidia"
  /\ Unwrap(fn.out).containerd.default_runtime_name = "nvidia"
  /\ Len(Unwrap(fn.out).containerd.runtimes) = 2
  /\ RuntimeNamed(Unwrap(fn.out).containerd.runtimes, "nvidia").BinaryName
       = Some("/usr/bin/nvidia-container-runtime")

\* sub occurs in s
Contains(s, sub) ==
  \E i \in 1..(Len(s) - Len(sub) + 1) : SubSeq(s, i, i + Len(sub) - 1) = sub

\* the pause image of a run: the override, or the image of the ECR registry of
\* the region us-east-1 the model's instances are in
ClaimedPauseImage ==
  IF IsSome(node.pause_container_image) THEN Unwrap(node.pause_container_image)
  ELSE "602401143452.dkr.ecr.us-east-1.amazonaws.com/eks/pause:3.8"

\* C23: the pause image reference is the override when one is given and
\* <ECR-URI>/eks/pause:<tag> of the region otherwise, and one run uses the
\* same reference as sandbox_image of the containerd config, as
\* --pod-infra-container-image of the kubelet args and in the pull command of
\* the sandbox-image unit.
C23_OnePauseImage ==
  /\ IsSome(loc.pause_image) => Unwrap(loc.pause_image) = ClaimedPauseImage
  /\ \A i \in 1..Len(log) :
       /\ (log[i].step = "containerd_config" /\ log[i].bytes # "")
          => Contains(log[i].bytes, "sandbox_image: " \o ClaimedPauseImage \o "\n")
       /\ (log[i].step = "kubelet_args" /\ log[i].bytes # "")
          => Contains(log[i].bytes,
                      "--pod-infra-container-image=" \o ClaimedPauseImage \o " ")
       /\ (log[i].step = "create_sandbox_image_service" /\ log[i].bytes # "")
          => Contains(log[i].bytes,
                      "eksnode pull --image " \o ClaimedPauseImage \o " --namespace k8s.io")

\* C23: a run with the override registry.example/pause:1 has written the
\* containerd config, the kubelet args and the sandbox-image unit
C23_Witness ==
  /\ node.pause_container_image = Some("registry.example/pause:1")
  /\ LoggedOk("containerd_config")
  /\ LoggedOk("kubelet_args")
  /\ LoggedOk("create_sandbox_image_service")
  /\ Contains(fs[SANDBOX_IMAGE_SERVICE_PATH].content, "registry.example/pause:1")

\* C24: instance metadata is fetched from the metadata service exactly once
\* per run and every step reads that one snapshot: the cluster DNS IP derived
\* from the VPC CIDR blocks is the one the snapshot's blocks give.
C24_OneMetadataSnapshot ==
  /\ calls.imds <= 1
  /\ (Resolved /\ node.cluster_dns_ip = None)
     => Ok(Unwrap(loc.cluster).cluster_dns_ip)
          = derive_cluster_dns_ip(node.service_cidr, node.ip_family,
                                  Unwrap(loc.instance_metadata).vpc_ipv4_cidr_blocks)

\* the config builders: what the join builds its files and arguments with
Builders ==
  {"derive_cluster_dns_ip", "get_kubelet_config", "get_kubelet_args",
   "get_plugins_config", "CredentialProviderConfig_new"}

\* C25: a config builder is a function of its declared inputs (metadata,
\* cluster info, instance capacity, target version, user flags): it prints
\* nothing while building, and the kubelet config built from the same declared
\* inputs is the same whatever the host it is built on.
C25_BuildersPure ==
  /\ fn.op \in Builders => stdout = <<>>
  /\ KubeletConfigDone
     => \A host_cpus \in {2, 96} :
          LET a == fn.args
          IN  get_kubelet_config(a.n, a.cluster_dns_ip, a.max_pods, a.kubelet_version,
                                 host_cpus, a.availability_zone, a.instance_id)
                = Unwrap(fn.out)

\* what calculate-max-pods returns for an instance type with custom networking and
\* prefix delegation disabled
StandaloneMaxPods(instance_type) ==
  calculate([instance_type |-> Some(instance_type), instance_type_from_imds |-> FALSE,
             cni_version |-> "1.10.0", cni_custom_networking_enabled |-> FALSE,
             cni_prefix_delegation_enabled |-> FALSE, cni_max_enis |-> None],
            Ok(instance_type))

\* C26: for an instance type of the capacity table, the max-pods value join resolves
\* in step 4 is clamped as the standalone calculation is: it is at most 250, at most
\* 110 when the type has 30 vCPUs or fewer, and it equals what calculate-max-pods
\* returns for that type with custom networking and prefix delegation disabled.
C26_JoinMaxPodsClamped ==
  (IsSome(loc.instance_metadata) /\ IsSome(loc.max_pods)
     /\ InTable(Unwrap(loc.instance_metadata).instance_type))
    => LET t == Unwrap(loc.instance_metadata).instance_type
           m == Unwrap(loc.max_pods)
       IN  /\ m <= 250
           /\ Instances[t].default_vcpus <= 30 => m <= 110
           /\ Ok(m) = StandaloneMaxPods(t)

\* C27: a systemctl command of the activation step that runs and exits with a
\* non-zero status is a step failure: no systemctl command is executed after it
\* (kubelet is not started after a failed daemon-reload, enable or containerd
\* restart) and join returns an error, the process exiting with 2.
C27_NonZeroExitFails ==
  \A i \in 1..Len(cmds) :
    (cmds[i].cmd = "systemctl" /\ cmds[i].status = Some(1))
      => /\ \A j \in (i + 1)..Len(cmds) : cmds[j].cmd # "systemctl"
         /\ RunEnded => ret = "Err"
         /\ pc = "exited" => exit_code = Some(2)

KubeletArgsDone == fn.op = "get_kubelet_args" /\ IsSome(fn.out) /\ IsOk(Unwrap(fn.out))

\* C28: for every kubelet version, --cloud-provider is aws below 1.26.0 and
\* external from 1.26.0 on; --hostname-override is present, with the private DNS
\* name as its value, iff the cloud provider is external; --container-runtime=remote
\* is present iff the version is below 1.27.0; and the kubelet configuration built
\* for the same version has its provider_id set iff the arguments use the external
\* cloud provider iff hostname-override is set.
C28_ArgsGates ==
  KubeletArgsDone
  => LET a == Val(Unwrap(fn.out))
         v == VersionNumber(fn.args.kubelet_version)
         external == v >= 1026000
         text == Args_content(a)
         config == get_kubelet_config(fn.args.n, V4(10, 1, 0, 10), 29, fn.args.kubelet_version,
                                      2, fn.args.imds.availability_zone, fn.args.imds.instance_id)
     IN  /\ a.cloud_provider = (IF external THEN "external" ELSE "aws")
         /\ Contains(text, "\t--cloud-provider=" \o a.cloud_provider \o " ")
            \/ Contains(text, "\t--cloud-provider=" \o a.cloud_provider \o "'")
         /\ a.hostname_override = (IF external THEN Some(fn.args.private_dns_name) ELSE None)
         /\ Contains(text, "\t--hostname-override=" \o fn.args.private_dns_name \o " ") <=> external
         /\ Contains(text, "--hostname-override") <=> external
         /\ a.container_runtime = (IF v < 1027000 THEN Some("remote") ELSE None)
         /\ Contains(text, "\t--container-runtime=remote'") <=> v < 1027000
         /\ Contains(text, "--container-runtime") <=> v < 1027000
         /\ IsSome(config.provider_id) <=> external
         /\ IsSome(config.provider_id) <=> IsSome(a.hostname_override)

\* C28: the arguments were built for kubelet 1.26.0, the first version with the
\* external cloud provider: the host name is overridden and the runtime still named
C28_Witness ==
  /\ KubeletArgsDone
  /\ fn.args.kubelet_version = <<1, 26, 0>>
  /\ Val(Unwrap(fn.out)).cloud_provider = "external"
  /\ Val(Unwrap(fn.out)).hostname_override = Some("ip-10-0-1-7.ec2.internal")
  /\ Val(Unwrap(fn.out)).container_runtime = Some("remote")

\* an address is inside a network: it has the network's bits under the prefix
InsideNet(addr, net) ==
  /\ addr.fam = net.addr.fam
  /\ HostBitsCleared([addr |-> addr, len |-> net.len]) = HostBitsCleared(net)

DeriveFromCidrDone ==
  fn.op = "derive_cluster_dns_ip" /\ IsSome(fn.out) /\ IsSome(fn.args[1]) /\ IsOk(Unwrap(fn.out))

\* C29 as stated: with a service CIDR, the derived cluster DNS IP is an address
\* inside that CIDR, for every IPv4 and IPv6 CIDR of any prefix length.
C29_DnsIpInsideCidr ==
  DeriveFromCidrDone => InsideNet(Val(Unwrap(fn.out)), Unwrap(fn.args[1]))

\* C29, amended: with a service CIDR, the derived cluster DNS IP is inside that
\* CIDR when the prefix leaves the whole last octet (IPv4, a prefix of at most 24)
\* or the whole last segment (IPv6, at most 112) to the host part; under a longer
\* prefix it is inside exactly when the bits of the network address's last
\* octet/segment that the prefix covers are those of 10.
C29_DnsIpInsideUpToLastSegment ==
  DeriveFromCidrDone
  => LET cidr == Unwrap(fn.args[1])
         n == Len(cidr.addr.segs)
         width == IF cidr.addr.fam = "v4" THEN 8 ELSE 16
         free == width * n - cidr.len
         inside == InsideNet(Val(Unwrap(fn.out)), cidr)
     IN  IF cidr.len <= width * (n - 1) THEN inside
         ELSE inside <=> HostBitsCleared(cidr)[n] = (10 \div Pow2(free)) * Pow2(free)

\* C29: the derivation was applied to 192.168.1.77/28 and gave 192.168.1.10, an
\* address outside 192.168.1.64/28
C29_Witness ==
  /\ DeriveFromCidrDone
  /\ fn.args[1] = Some(Net(V4(192, 168, 1, 77), 28))
  /\ Unwrap(fn.out) = Ok(V4(192, 168, 1, 10))
  /\ ~InsideNet(V4(192, 168, 1, 10), Net(V4(192, 168, 1, 77), 28))

\* a value of standard base64 without the '=' padding a padded encoding ends in
StripPadding(s) ==
  IF Len(s) % 4 = 0 /\ Len(s) >= 2 /\ SubSeq(s, Len(s) - 1, Len(s)) = "=="
  THEN SubSeq(s, 1, Len(s) - 2)
  ELSE IF Len(s) % 4 = 0 /\ Len(s) >= 1 /\ SubSeq(s, Len(s), Len(s)) = "="
  THEN SubSeq(s, 1, Len(s) - 1)
  ELSE s

\* the base64 decoding of a value of the standard alphabet, padded or not
StandardDecoding(s) == b64_decode_no_pad(StripPadding(s))

\* C30: step 7 succeeds for every CA value that is valid standard base64, with or
\* without '=' padding: the bytes it writes to /etc/kubernetes/pki/ca.crt are the
\* base64 decoding of the value, and only a value that is not valid base64 makes
\* the decoding fail.
C30_CaDecoded ==
  \A i \in 1..Len(log) :
    log[i].step = "write_ca_cert"
      => LET decoding == StandardDecoding(Unwrap(loc.cluster).b64_ca)
         IN  IF IsOk(decoding) THEN log[i].bytes = Val(decoding)
             ELSE log[i].res = "Err"

====
